---- MODULE Spec2Model ----
(***************************************************************************)
(* Host <-> native bridge of runanywhere-commons.                          *)
(*                                                                         *)
(* Part I   LoRA adapter registry (lora_registry.cpp): a heap of blocks,   *)
(*          the registry's map from id to entry pointer, deep copies in    *)
(*          and out, allocation failure at any allocation of a call.       *)
(* Part II  Streaming generation through the JNI bridge                    *)
(*          (runanywhere_commons_jni.cpp): the entry point's thread, the   *)
(*          engine's worker, the streaming context and the managed sink.   *)
(***************************************************************************)
EXTENDS Integers, Sequences, FiniteSets, TLC

(***************************************************************************)
(* Bounds of the model.                                                    *)
(***************************************************************************)
\* number of heap addresses; an allocation fails when none is free
HeapSize == 53
\* number of registry calls and caller steps in one behaviour
MaxCalls == 3
\* number of tokens the engine emits in one generation
MaxTokens == 2
\* number of tokens the engine may still emit after it has been told to stop
MaxExtra == 1
\* number of calls the two threads of Part III begin on their registry
MaxOps == 3
\* number of global references the installs of Part IV create
MaxInstalls == 2
\* bytes that fit in the buffer inside a std::string of Part V
InlineCap == 1
\* number of calls the native operations of Part V make
MaxDeviceCalls == 3
\* number of addresses at which native telemetry managers of Part VI live
MaxManagers == 2
\* number of calls of the telemetry and analytics entry points of Part VI
MaxTelemetryCalls == 4
\* number of calls of the component entry points of Part VII
MaxComponentCalls == 3

(***************************************************************************)
(* Constants of the code.                                                  *)
(***************************************************************************)
\* constexpr auto kStreamWaitTimeout = std::chrono::minutes(10), in minutes
kStreamWaitTimeout == 10
\* strncmp(response_str, "ERROR:", 6)
kErrorPrefixLen == 6

(***************************************************************************)
(* Result codes (rac_result_t), by name.                                   *)
(***************************************************************************)
RAC_SUCCESS == "RAC_SUCCESS"
RAC_ERROR_INVALID_ARGUMENT == "RAC_ERROR_INVALID_ARGUMENT"
RAC_ERROR_OUT_OF_MEMORY == "RAC_ERROR_OUT_OF_MEMORY"
RAC_ERROR_NOT_FOUND == "RAC_ERROR_NOT_FOUND"
RAC_ERROR_INVALID_STATE == "RAC_ERROR_INVALID_STATE"
RAC_ERROR_INVALID_HANDLE == "RAC_ERROR_INVALID_HANDLE"

\* rac_bool_t
RAC_TRUE == "RAC_TRUE"
RAC_FALSE == "RAC_FALSE"

VARIABLES
    heap,       \* address -> block: the C heap shared by registry and caller
    entries,    \* rac_lora_registry::entries : id -> address of the stored entry
    inputs,     \* the caller's own rac_lora_entry_t records: index -> address (0 once freed)
    out,        \* the caller's out-parameters of the last read call
    call,       \* the last call: operation, arguments, result code
    shadow,     \* id -> value registered last (history variable)
    oomPrev,    \* id -> value stored when a register of that id failed with out-of-memory
    touched,    \* the caller has changed or freed a record of its own (history variable)
    ncalls,     \* number of calls made so far
    kind,       \* the streaming entry point called: "none", "llm", "llmcb", "vlm"
    pc,         \* where the entry point's thread stands
    gref,       \* the sink's global reference: "none", "held", "released"
    ctxLive,    \* the stack-allocated streaming context is in scope
    waited,     \* minutes the entry point has spent in wait_for
    result,     \* what the entry point returned to the managed caller
    ctx,        \* the streaming context (LLMStreamContext and its two relatives)
    eng,        \* the engine's generation: state, tokens emitted, stop flag, terminal event
    cb,         \* the token callback in progress on the engine's worker
    sinkLog,    \* the tokens the managed sink has received, in order of arrival
    hist,       \* history of the call (history variable)
    reg,        \* the registry two threads share: "live" or "destroyed"
    mutex,      \* rac_lora_registry::mutex : 0, or the thread that holds it
    thr,        \* thread -> its call on the registry and where it stands in it
    race,       \* freed memory was used, the process went down (history variable)
    nops,       \* number of calls the two threads have begun
    g_jvm,      \* g_jvm is set (the library is loaded)
    g_platform_adapter,  \* the adapter's global reference, 0 for nullptr
    g_method,   \* g_method_<name> : method id, 0 for nullptr
    g_adapter_mutex,     \* "free", or the thread that holds it
    g_device_jni_state,  \* callback_obj, the five method ids, mtx
    g_model_assignment_state,  \* jvm, callback_obj, http_get_method, mutex, callbacks_registered
    grefs,      \* the global references created so far: class of the object, still live
    inst,       \* the managed thread's install call and where it stands in it
    cbk,        \* the native thread's callback and where it stands in it
    g_cached_device_id,     \* the static std::string behind get_device_id
    g_device_info_strings,  \* the static std::strings behind get_device_info, and mtx
    dev,        \* native thread -> its call of a device string callback
    dbuf,       \* number of heap buffers the static strings have allocated
    dcalls,     \* number of calls of the device string callbacks
    g_telemetry_jni_state,          \* manager, http_callback_obj is set
    g_analytics_telemetry_manager,  \* address of the manager analytics events go to, 0 for nullptr
    g_analytics_telemetry_mutex,    \* "free", or the thread that holds it
    managers,   \* address -> the native telemetry manager there: live, its number
    analytics_callback,  \* the C callback is registered with the analytics dispatch
    emit,       \* the native thread's analytics event and where it stands
    telemetry,  \* the calls made on native telemetry managers, in order (history variable)
    route,      \* the analytics route is off; an event crossed it, was dropped;
                \* the route was given a live manager; an event went to a
                \* destroyed one (history variable)
    tcalls,     \* number of telemetry and analytics calls made so far
    comp,       \* capability -> state of its native component
    clast,      \* the last call of a component entry point (history variable)
    ccalls,     \* number of calls of component entry points
    jcall       \* the last call of a JSON builder: function, argument, text returned

regVars == <<heap, entries, inputs, out, call, shadow, oomPrev, touched, ncalls>>
streamVars == <<kind, pc, gref, ctxLive, waited, result, ctx, eng, cb, sinkLog, hist>>
lockVars == <<reg, mutex, thr, race, nops>>
bridgeVars == <<g_jvm, g_platform_adapter, g_method, g_adapter_mutex,
                g_device_jni_state, g_model_assignment_state, grefs, inst, cbk>>
devVars == <<g_cached_device_id, g_device_info_strings, dev, dbuf, dcalls>>
telemetryVars == <<g_telemetry_jni_state, g_analytics_telemetry_manager,
                   g_analytics_telemetry_mutex, managers, analytics_callback, emit,
                   telemetry, route, tcalls>>
componentVars == <<comp, clast, ccalls>>
jsonVars == <<jcall>>
vars == <<regVars, streamVars, lockVars, bridgeVars, devVars, telemetryVars,
          componentVars, jsonVars>>

\* what the actions of one part leave alone
notRegVars == <<streamVars, lockVars, bridgeVars, devVars, telemetryVars,
    componentVars, jsonVars>>
notStreamVars == <<regVars, lockVars, bridgeVars, devVars, telemetryVars,
    componentVars, jsonVars>>
notLockVars == <<streamVars, bridgeVars, devVars, telemetryVars,
    componentVars, jsonVars>>
notBridgeVars == <<regVars, streamVars, lockVars, devVars, telemetryVars,
    componentVars, jsonVars>>
notDevVars == <<regVars, streamVars, lockVars, bridgeVars, telemetryVars,
    componentVars, jsonVars>>
notBridgeDevVars == <<regVars, streamVars, lockVars, telemetryVars,
    componentVars, jsonVars>>
notTelemetryVars == <<regVars, streamVars, lockVars, bridgeVars, devVars,
    componentVars, jsonVars>>
notComponentVars == <<regVars, streamVars, lockVars, bridgeVars, devVars,
    telemetryVars, jsonVars>>
notJsonVars == <<regVars, streamVars, lockVars, bridgeVars, devVars,
    telemetryVars, componentVars>>

(***************************************************************************)
(* The heap.  NULL is address 0.  A block is free, a C string, an array of *)
(* pointers, or a rac_lora_entry_t.                                        *)
(***************************************************************************)
NULL == 0
Addr == 1..HeapSize

FreeBlock == [kind |-> "free"]
StrBlock(s) == [kind |-> "str", val |-> s]
ArrBlock(ps) == [kind |-> "arr", elems |-> ps, len |-> Len(ps)]

\* calloc(1, sizeof(rac_lora_entry_t)): every field zero
ZeroEntry ==
    [kind |-> "entry", id |-> NULL, name |-> NULL, description |-> NULL,
     download_url |-> NULL, filename |-> NULL, compatible_model_ids |-> NULL,
     compatible_model_count |-> 0, file_size |-> 0, default_scale |-> 0]

FreeAddrs(h) == {a \in Addr : h[a].kind = "free"}

Lowest(S) == CHOOSE a \in S : \A b \in S : a <= b

\* An allocator state: the heap and the countdown to the allocation that
\* fails (1 = the next one fails, 0 = none fails).
Mem(h, fail) == [heap |-> h, fail |-> fail]

AllocAt(m, blk, a) ==
    [m |-> Mem([m.heap EXCEPT ![a] = blk], IF m.fail > 1 THEN m.fail - 1 ELSE 0),
     p |-> a]

\* malloc / calloc / strdup of one block holding blk; p = NULL on failure
Alloc(m, blk) ==
    IF m.fail = 1 \/ FreeAddrs(m.heap) = {}
    THEN [m |-> Mem(m.heap, 0), p |-> NULL]
    ELSE AllocAt(m, blk, Lowest(FreeAddrs(m.heap)))

\* free(p)
Free(h, p) == IF p = NULL THEN h ELSE [h EXCEPT ![p] = FreeBlock]

\* the bytes read through a char*; a freed block reads as "<freed>"
CStr(h, p) == IF h[p].kind = "str" THEN h[p].val ELSE "<freed>"

\* rac_strdup: NULL for NULL, else a fresh block with the same bytes
RacStrdup(m, p) ==
    IF p = NULL THEN [m |-> m, p |-> NULL] ELSE Alloc(m, StrBlock(CStr(m.heap, p)))

(***************************************************************************)
(* free_lora_entry                                                         *)
(***************************************************************************)
RECURSIVE FreeElems(_, _, _, _)
FreeElems(h, arr, i, n) ==
    IF i > n \/ h[arr].kind # "arr" THEN h
    ELSE FreeElems(Free(h, h[arr].elems[i]), arr, i + 1, n)

FreeStrings(h, e) ==
    Free(Free(Free(Free(Free(h, e.id), e.name), e.description), e.download_url),
         e.filename)

FreeList(h, e) ==
    IF e.compatible_model_ids = NULL THEN h
    ELSE Free(FreeElems(h, e.compatible_model_ids, 1, e.compatible_model_count),
              e.compatible_model_ids)

FreeLoraEntry(h, p) ==
    IF p = NULL \/ h[p].kind # "entry" THEN h
    ELSE Free(FreeList(FreeStrings(h, h[p]), h[p]), p)

(***************************************************************************)
(* deep_copy_lora_entry.  A copy in progress is [m, copy, failed]: the     *)
(* allocator state, the address of the copy, and whether a non-null source *)
(* string failed to copy.                                                  *)
(***************************************************************************)
StoreField(cp, f, sp, r) ==
    [m |-> Mem([r.m.heap EXCEPT ![cp.copy][f] = r.p], r.m.fail),
     copy |-> cp.copy,
     failed |-> cp.failed \/ (sp # NULL /\ r.p = NULL)]

\* copy->f = rac_strdup(src->f)
DupField(cp, f, sp) == StoreField(cp, f, sp, RacStrdup(cp.m, sp))

\* the five rac_strdup calls; all five are made before any result is tested
DupStrings(cp, s) ==
    DupField(DupField(DupField(DupField(DupField(cp,
        "id", s.id), "name", s.name), "description", s.description),
        "download_url", s.download_url), "filename", s.filename)

\* free_lora_entry(copy); return nullptr
GiveUp(cp) == [m |-> Mem(FreeLoraEntry(cp.m.heap, cp.copy), cp.m.fail), p |-> NULL]

StoreElem(cp, i, sp, r) ==
    [m |-> Mem([r.m.heap EXCEPT
                   ![r.m.heap[cp.copy].compatible_model_ids].elems[i] = r.p],
               r.m.fail),
     copy |-> cp.copy,
     failed |-> sp # NULL /\ r.p = NULL]

\* the element loop: copy->compatible_model_ids[i] = rac_strdup(src->...[i]),
\* left at the first element that fails to copy
RECURSIVE CopyIds(_, _, _, _)
CopyIds(cp, srcArr, i, n) ==
    IF i > n \/ cp.failed THEN cp
    ELSE CopyIds(StoreElem(cp, i, cp.m.heap[srcArr].elems[i],
                           RacStrdup(cp.m, cp.m.heap[srcArr].elems[i])),
                 srcArr, i + 1, n)

\* copy->file_size = src->file_size; copy->default_scale = src->default_scale
FinishCopy(cp, s) ==
    IF cp.failed THEN GiveUp(cp)
    ELSE [m |-> Mem([cp.m.heap EXCEPT ![cp.copy].file_size = s.file_size,
                                      ![cp.copy].default_scale = s.default_scale],
                    cp.m.fail),
          p |-> cp.copy]

\* the array is in place with its count set before the elements are filled
CopyListInto(cp, s, ra) ==
    IF ra.p = NULL THEN GiveUp([cp EXCEPT !.m = ra.m])
    ELSE FinishCopy(CopyIds([cp EXCEPT !.m =
                            Mem([ra.m.heap EXCEPT
                                    ![cp.copy].compatible_model_ids = ra.p,
                                    ![cp.copy].compatible_model_count =
                                        s.compatible_model_count],
                                ra.m.fail)],
                        s.compatible_model_ids, 1, s.compatible_model_count),
                s)

CopyList(cp, s) ==
    IF cp.failed THEN GiveUp(cp)
    ELSE IF s.compatible_model_ids # NULL /\ s.compatible_model_count > 0
    THEN CopyListInto(cp, s,
             Alloc(cp.m, ArrBlock([i \in 1..s.compatible_model_count |-> NULL])))
    ELSE FinishCopy(cp, s)

CopyFrom(r0, s) ==
    IF r0.p = NULL THEN [m |-> r0.m, p |-> NULL]
    ELSE CopyList(DupStrings([m |-> r0.m, copy |-> r0.p, failed |-> FALSE], s), s)

DeepCopyLoraEntry(m, src) ==
    IF src = NULL THEN [m |-> m, p |-> NULL]
    ELSE CopyFrom(Alloc(m, ZeroEntry), m.heap[src])

(***************************************************************************)
(* Values.  A nullable C string is <<>> (NULL) or <<s>>; the value of an   *)
(* entry is what a reader of the record sees through its pointers.         *)
(***************************************************************************)
None == <<>>
Some(s) == <<s>>

StrOpt(h, p) == IF p = NULL THEN None ELSE Some(CStr(h, p))

IdsOf(h, e) ==
    IF e.compatible_model_ids = NULL \/ e.compatible_model_count = 0 THEN <<>>
    ELSE IF h[e.compatible_model_ids].kind = "arr"
            /\ h[e.compatible_model_ids].len >= e.compatible_model_count
    THEN [i \in 1..e.compatible_model_count |->
             StrOpt(h, h[e.compatible_model_ids].elems[i])]
    ELSE <<Some("<freed>")>>

EntryRecord(h, e) ==
    [id |-> StrOpt(h, e.id), name |-> StrOpt(h, e.name),
     description |-> StrOpt(h, e.description),
     download_url |-> StrOpt(h, e.download_url),
     filename |-> StrOpt(h, e.filename),
     compatible_model_ids |-> IdsOf(h, e),
     compatible_model_count |-> e.compatible_model_count,
     file_size |-> e.file_size, default_scale |-> e.default_scale]

\* a pointer to a freed record reads as [freed |-> TRUE]
EntryValue(h, p) ==
    IF p = NULL \/ h[p].kind # "entry" THEN [freed |-> TRUE]
    ELSE EntryRecord(h, h[p])

ListBlocks(h, arr) ==
    IF arr = NULL \/ h[arr].kind # "arr" THEN {}
    ELSE {arr} \cup {h[arr].elems[i] : i \in 1..h[arr].len}

\* the addresses a record owns: the entry, its strings, its array, its elements
EntryBlocks(h, p) ==
    IF p = NULL \/ h[p].kind # "entry" THEN {}
    ELSE ({p, h[p].id, h[p].name, h[p].description, h[p].download_url,
           h[p].filename} \cup ListBlocks(h, h[p].compatible_model_ids)) \ {NULL}

(***************************************************************************)
(* The caller's records.  The registry's callers build rac_lora_entry_t    *)
(* records of their own (rac_lora_registry.h) and pass them to register.   *)
(* default_scale is in tenths.                                             *)
(***************************************************************************)
InputVals ==
    << [id |-> Some("l1"), name |-> Some("n1"), description |-> Some("d1"),
        download_url |-> Some("u1"), filename |-> Some("f1"),
        has_list |-> TRUE, ids |-> <<Some("mA"), Some("mB")>>,
        file_size |-> 10, default_scale |-> 3],
       [id |-> Some("l1"), name |-> Some("n2"), description |-> None,
        download_url |-> None, filename |-> None,
        has_list |-> FALSE, ids |-> <<>>,
        file_size |-> 0, default_scale |-> 7],
       [id |-> Some("l2"), name |-> None, description |-> None,
        download_url |-> None, filename |-> None,
        has_list |-> TRUE, ids |-> <<Some("mB"), Some("mB")>>,
        file_size |-> 20, default_scale |-> 5],
       [id |-> Some("l2"), name |-> None, description |-> None,
        download_url |-> None, filename |-> None,
        has_list |-> TRUE, ids |-> <<None, Some("mA")>>,
        file_size |-> 30, default_scale |-> 1] >>

NumInputs == Len(InputVals)

\* the order in which std::map<std::string, ...> iterates over the ids in use
IdOrder == <<"l1", "l2">>
Ids == {IdOrder[j] : j \in 1..Len(IdOrder)}
ModelIds == {"mA", "mB", "mC"}

PutFieldAt(cp, f, r) ==
    [cp EXCEPT !.m = Mem([r.m.heap EXCEPT ![cp.copy][f] = r.p], 0)]

\* entry.f = strdup(f_str), or nullptr for an absent string
PutField(cp, f, opt) ==
    IF opt = None THEN cp ELSE PutFieldAt(cp, f, Alloc(cp.m, StrBlock(opt[1])))

PutElemAt(cp, i, r) ==
    [cp EXCEPT !.m = Mem([r.m.heap EXCEPT
                            ![r.m.heap[cp.copy].compatible_model_ids].elems[i] = r.p],
                         0)]

RECURSIVE PutElems(_, _, _)
PutElems(cp, opts, i) ==
    IF i > Len(opts) THEN cp
    ELSE IF opts[i] = None THEN PutElems(cp, opts, i + 1)
    ELSE PutElems(PutElemAt(cp, i, Alloc(cp.m, StrBlock(opts[i][1]))), opts, i + 1)

PutArr(cp, n, ra) ==
    [cp EXCEPT !.m = Mem([ra.m.heap EXCEPT ![cp.copy].compatible_model_ids = ra.p,
                                          ![cp.copy].compatible_model_count = n],
                         0)]

PutList(cp, v) ==
    IF ~v.has_list THEN cp
    ELSE PutElems(PutArr(cp, Len(v.ids),
                         Alloc(cp.m, ArrBlock([i \in 1..Len(v.ids) |-> NULL]))),
                  v.ids, 1)

PutScalars(cp, v) ==
    [cp EXCEPT !.m = Mem([cp.m.heap EXCEPT ![cp.copy].file_size = v.file_size,
                                          ![cp.copy].default_scale = v.default_scale],
                         0)]

BuildFrom(r0, v) ==
    PutScalars(PutList(PutField(PutField(PutField(PutField(PutField(
        [m |-> r0.m, copy |-> r0.p],
        "id", v.id), "name", v.name), "description", v.description),
        "download_url", v.download_url), "filename", v.filename), v), v)

\* a record of the caller with value v, built on heap h
BuildEntry(h, v) == BuildFrom(Alloc(Mem(h, 0), ZeroEntry), v)

RECURSIVE BuildInputs(_, _, _)
BuildInputs(b, ptrs, i) ==
    IF i > NumInputs THEN [heap |-> b.m.heap, ptrs |-> Tail(Append(ptrs, b.copy))]
    ELSE BuildInputs(BuildEntry(b.m.heap, InputVals[i]), Append(ptrs, b.copy), i + 1)

EmptyHeap == [a \in Addr |-> FreeBlock]
EmptyMap == [k \in {} |-> NULL]
MapPut(f, k, v) == [x \in DOMAIN f \cup {k} |-> IF x = k THEN v ELSE f[x]]
MapDel(f, k) == [x \in DOMAIN f \ {k} |-> f[x]]

(***************************************************************************)
(* The registry's operations.  Each takes the heap h, the map ents and the *)
(* arguments, and returns the heap and map it leaves with its result code  *)
(* and out-parameters.  Every operation runs under the registry's mutex    *)
(* from its argument check to its return.  fail is the allocation of the   *)
(* call that fails (0 = none).                                             *)
(***************************************************************************)
\* ids of the map in iteration order
MapOrder(ents) == SelectSeq(IdOrder, LAMBDA k : k \in DOMAIN ents)

\* register, after the copy, as it would be with entries.insert, which keeps
\* an existing element
StoreInsertOnly(ents, adapter_id, r) ==
    IF r.p = NULL
    THEN [heap |-> r.m.heap, entries |-> ents, rc |-> RAC_ERROR_OUT_OF_MEMORY]
    ELSE IF adapter_id \in DOMAIN ents
    THEN [heap |-> FreeLoraEntry(r.m.heap, r.p), entries |-> ents, rc |-> RAC_SUCCESS]
    ELSE [heap |-> r.m.heap, entries |-> MapPut(ents, adapter_id, r.p),
          rc |-> RAC_SUCCESS]

\* register as it would be if a failed copy released the entry it replaces
StoreCopyErasesOnFailure(ents, adapter_id, r) ==
    IF r.p = NULL
    THEN [heap |-> IF adapter_id \in DOMAIN ents
                   THEN FreeLoraEntry(r.m.heap, ents[adapter_id])
                   ELSE r.m.heap,
          entries |-> MapDel(ents, adapter_id),
          rc |-> RAC_ERROR_OUT_OF_MEMORY]
    ELSE [heap |-> IF adapter_id \in DOMAIN ents
                   THEN FreeLoraEntry(r.m.heap, ents[adapter_id])
                   ELSE r.m.heap,
          entries |-> MapPut(ents, adapter_id, r.p),
          rc |-> RAC_SUCCESS]

\* rac_lora_registry_register from "if (!copy)" on: r is the copy made
StoreCopy(ents, adapter_id, r) ==
    IF r.p = NULL
    THEN [heap |-> r.m.heap, entries |-> ents, rc |-> RAC_ERROR_OUT_OF_MEMORY]
    ELSE [heap |-> IF adapter_id \in DOMAIN ents
                   THEN FreeLoraEntry(r.m.heap, ents[adapter_id])
                   ELSE r.m.heap,
          entries |-> MapPut(ents, adapter_id, r.p),
          rc |-> RAC_SUCCESS]

\* the map after a copy made on a heap where the old entry is already freed
StoreOver(ents, adapter_id, r) ==
    IF r.p = NULL
    THEN [heap |-> r.m.heap, entries |-> ents, rc |-> RAC_ERROR_OUT_OF_MEMORY]
    ELSE [heap |-> r.m.heap, entries |-> MapPut(ents, adapter_id, r.p),
          rc |-> RAC_SUCCESS]

\* register as it would be with the old entry freed before the copy is made
RegisterFreesFirst(h, ents, handle_ok, src, fail) ==
    IF ~handle_ok \/ src = NULL \/ h[src].id = NULL
    THEN [heap |-> h, entries |-> ents, rc |-> RAC_ERROR_INVALID_ARGUMENT]
    ELSE StoreOver(ents, CStr(h, h[src].id),
             DeepCopyLoraEntry(
                 Mem(IF CStr(h, h[src].id) \in DOMAIN ents
                     THEN FreeLoraEntry(h, ents[CStr(h, h[src].id)]) ELSE h, fail),
                 src))

\* register as it would be storing the caller's pointer instead of a copy
RegisterNoCopy(h, ents, handle_ok, src, fail) ==
    IF ~handle_ok \/ src = NULL \/ h[src].id = NULL
    THEN [heap |-> h, entries |-> ents, rc |-> RAC_ERROR_INVALID_ARGUMENT]
    ELSE [heap |-> h, entries |-> MapPut(ents, CStr(h, h[src].id), src),
          rc |-> RAC_SUCCESS]

\* rac_lora_registry_register(handle, entry)
LoraRegistryRegister(h, ents, handle_ok, src, fail) ==
    IF ~handle_ok \/ src = NULL \/ h[src].id = NULL
    THEN [heap |-> h, entries |-> ents, rc |-> RAC_ERROR_INVALID_ARGUMENT]
    ELSE StoreCopy(ents, CStr(h, h[src].id), DeepCopyLoraEntry(Mem(h, fail), src))

\* remove as it would be if it reported success without erasing the entry
RemoveKeepsEntry(h, ents, handle_ok, adapter_id) ==
    IF ~handle_ok
    THEN [heap |-> h, entries |-> ents, rc |-> RAC_ERROR_INVALID_ARGUMENT]
    ELSE IF adapter_id \notin DOMAIN ents
    THEN [heap |-> h, entries |-> ents, rc |-> RAC_ERROR_NOT_FOUND]
    ELSE [heap |-> h, entries |-> ents, rc |-> RAC_SUCCESS]

\* rac_lora_registry_remove(handle, adapter_id)
LoraRegistryRemove(h, ents, handle_ok, adapter_id) ==
    IF ~handle_ok
    THEN [heap |-> h, entries |-> ents, rc |-> RAC_ERROR_INVALID_ARGUMENT]
    ELSE IF adapter_id \notin DOMAIN ents
    THEN [heap |-> h, entries |-> ents, rc |-> RAC_ERROR_NOT_FOUND]
    ELSE [heap |-> FreeLoraEntry(h, ents[adapter_id]),
          entries |-> MapDel(ents, adapter_id), rc |-> RAC_SUCCESS]

\* *out_entry = deep_copy_lora_entry(it->second)
ReturnCopy(o, r) ==
    [heap |-> r.m.heap, out |-> [o EXCEPT !.entry = r.p],
     rc |-> IF r.p = NULL THEN RAC_ERROR_OUT_OF_MEMORY ELSE RAC_SUCCESS]

\* rac_lora_registry_get(handle, adapter_id, out_entry); o is the caller's
\* out-parameter record, written only where the code writes it
LoraRegistryGet(h, ents, o, handle_ok, adapter_id, fail) ==
    IF ~handle_ok
    THEN [heap |-> h, out |-> o, rc |-> RAC_ERROR_INVALID_ARGUMENT]
    ELSE IF adapter_id \notin DOMAIN ents
    THEN [heap |-> h, out |-> o, rc |-> RAC_ERROR_NOT_FOUND]
    ELSE ReturnCopy(o, DeepCopyLoraEntry(Mem(h, fail), ents[adapter_id]))

\* for (j = 0; j < i; ++j) free_lora_entry((*out_entries)[j])
RECURSIVE FreeCopies(_, _, _, _)
\* the failure path of the copy loop as it would be without freeing the
\* copies made so far
FreeCopiesNone(h, arr, j, n) == h

FreeCopies(h, arr, j, n) ==
    IF j > n THEN h
    ELSE FreeCopies(FreeLoraEntry(h, h[arr].elems[j]), arr, j + 1, n)

\* The copy loop shared by get_all and get_for_model: (*out_entries)[i] =
\* deep_copy_lora_entry(srcs[i]); on a failure the copies made so far and the
\* array are freed, *out_entries = nullptr, *out_count = 0.
RECURSIVE CopyInto(_, _, _, _, _)
RECURSIVE CopyNext(_, _, _, _, _)
CopyInto(m, o, arr, srcs, i) ==
    IF i > Len(srcs) THEN [heap |-> m.heap, out |-> o, rc |-> RAC_SUCCESS]
    ELSE CopyNext(DeepCopyLoraEntry(m, srcs[i]), o, arr, srcs, i)

CopyNext(r, o, arr, srcs, i) ==
    IF r.p = NULL
    THEN [heap |-> Free(FreeCopies(r.m.heap, arr, 1, i - 1), arr),
          out |-> [o EXCEPT !.entries = NULL, !.count = 0],
          rc |-> RAC_ERROR_OUT_OF_MEMORY]
    ELSE CopyInto(Mem([r.m.heap EXCEPT ![arr].elems[i] = r.p], r.m.fail),
                  o, arr, srcs, i + 1)

\* after "*out_entries = malloc(...)": ra is the array allocated
CopyOutArr(ra, o, srcs) ==
    IF ra.p = NULL
    THEN [heap |-> ra.m.heap, out |-> [o EXCEPT !.entries = NULL],
          rc |-> RAC_ERROR_OUT_OF_MEMORY]
    ELSE CopyInto(ra.m, [o EXCEPT !.entries = ra.p], ra.p, srcs, 1)

\* the tail as it would be without its test for an empty result
CopyOutNoEmptyTest(h, o, srcs, fail) ==
    CopyOutArr(Alloc(Mem(h, fail), ArrBlock([i \in 1..Len(srcs) |-> NULL])),
               [o EXCEPT !.count = Len(srcs)], srcs)

\* the tail of get_all and get_for_model from "*out_count = ..." on
CopyOut(h, o, srcs, fail) ==
    IF Len(srcs) = 0
    THEN [heap |-> h, out |-> [o EXCEPT !.count = 0, !.entries = NULL],
          rc |-> RAC_SUCCESS]
    ELSE CopyOutArr(Alloc(Mem(h, fail), ArrBlock([i \in 1..Len(srcs) |-> NULL])),
                    [o EXCEPT !.count = Len(srcs)], srcs)

\* the stored entries in the map's iteration order
EntriesOf(ents) == [i \in 1..Len(MapOrder(ents)) |-> ents[MapOrder(ents)[i]]]

\* rac_lora_registry_get_all(handle, out_entries, out_count)
LoraRegistryGetAll(h, ents, o, handle_ok, fail) ==
    IF ~handle_ok
    THEN [heap |-> h, out |-> o, rc |-> RAC_ERROR_INVALID_ARGUMENT]
    ELSE CopyOut(h, o, EntriesOf(ents), fail)

\* the inner loop as it would be without its break
RECURSIVE MatchCountNoBreak(_, _, _, _)
MatchCountNoBreak(h, e, model_id, i) ==
    IF i > e.compatible_model_count THEN 0
    ELSE (IF h[e.compatible_model_ids].elems[i] # NULL
             /\ CStr(h, h[e.compatible_model_ids].elems[i]) = model_id
          THEN 1 ELSE 0)
         + MatchCountNoBreak(h, e, model_id, i + 1)

\* the inner loop of get_for_model over one entry's list: how many times the
\* entry is pushed onto matches (push_back, break)
RECURSIVE MatchCount(_, _, _, _)
MatchCount(h, e, model_id, i) ==
    IF i > e.compatible_model_count THEN 0
    ELSE IF h[e.compatible_model_ids].elems[i] # NULL
            /\ CStr(h, h[e.compatible_model_ids].elems[i]) = model_id
    THEN 1
    ELSE MatchCount(h, e, model_id, i + 1)

\* what one entry adds to matches
MatchesOf(h, p, model_id) ==
    IF h[p].compatible_model_ids = NULL THEN <<>>
    ELSE [i \in 1..MatchCount(h, h[p], model_id, 1) |-> p]

\* the matches vector of get_for_model
RECURSIVE Matches(_, _, _, _)
Matches(h, ents, model_id, ks) ==
    IF ks = <<>> THEN <<>>
    ELSE MatchesOf(h, ents[Head(ks)], model_id) \o Matches(h, ents, model_id, Tail(ks))

\* rac_lora_registry_get_for_model(handle, model_id, out_entries, out_count)
LoraRegistryGetForModel(h, ents, o, handle_ok, model_id, fail) ==
    IF ~handle_ok
    THEN [heap |-> h, out |-> o, rc |-> RAC_ERROR_INVALID_ARGUMENT]
    ELSE CopyOut(h, o, Matches(h, ents, model_id, MapOrder(ents)), fail)

\* rac_lora_entry_array_free(entries, count)
RECURSIVE LoraEntryArrayFree(_, _, _, _)
LoraEntryArrayFree(h, arr, i, count) ==
    IF arr = NULL THEN h
    ELSE IF i > count THEN Free(h, arr)
    ELSE LoraEntryArrayFree(FreeLoraEntry(h, h[arr].elems[i]), arr, i + 1, count)

(***************************************************************************)
(* The caller's own steps on its own records.                              *)
(***************************************************************************)
\* the caller overwrites the bytes of the strings in blocks bs and the scalar
\* fields of the records among them
Scribble(h, bs) ==
    [a \in Addr |->
        IF a \notin bs THEN h[a]
        ELSE IF h[a].kind = "str" THEN StrBlock("zz")
        ELSE IF h[a].kind = "entry"
             THEN [h[a] EXCEPT !.default_scale = 9, !.file_size = 99]
        ELSE h[a]]

\* the blocks of the records the out-parameters point to
OutBlocks(h, o) ==
    EntryBlocks(h, o.entry)
    \cup (IF o.entries = NULL \/ h[o.entries].kind # "arr" THEN {}
          ELSE {o.entries} \cup
               UNION {EntryBlocks(h, h[o.entries].elems[i]) : i \in 1..h[o.entries].len})

NoOut == [entry |-> NULL, entries |-> NULL, count |-> 0]

\* the record of a call: operation, key argument, index of the caller's record,
\* result code, whether the handle passed was a registry (not null), and the
\* map's size and whether it held the key before the call
CallRec(op, key, inp, rc, handle_ok) ==
    [op |-> op, key |-> key, inp |-> inp, rc |-> rc, handle_ok |-> handle_ok,
     size |-> Cardinality(DOMAIN entries), had |-> key \in DOMAIN entries,
     nullarg |-> "none", used |-> Addr \ FreeAddrs(heap), fail |-> 0]

\* The allocations a call makes when none fails: each of them may be the one
\* that fails.
CopyAllocs(h, p) ==
    1 + Cardinality({f \in {"id", "name", "description", "download_url", "filename"} :
                        h[p][f] # NULL})
      + (IF h[p].compatible_model_ids # NULL /\ h[p].compatible_model_count > 0
         THEN 1 + Cardinality({i \in 1..h[p].compatible_model_count :
                                  h[h[p].compatible_model_ids].elems[i] # NULL})
         ELSE 0)

RECURSIVE SumAllocs(_, _)
SumAllocs(h, srcs) ==
    IF srcs = <<>> THEN 0 ELSE CopyAllocs(h, Head(srcs)) + SumAllocs(h, Tail(srcs))

RegisterAllocs(i) ==
    IF i = 0 \/ inputs[i] = NULL \/ heap[inputs[i]].id = NULL THEN 0
    ELSE CopyAllocs(heap, inputs[i])

GetAllocs(k) == IF k \in DOMAIN entries THEN CopyAllocs(heap, entries[k]) ELSE 0

ArrayAllocs(srcs) == IF srcs = <<>> THEN 0 ELSE 1 + SumAllocs(heap, srcs)

\* the key a register call passes: entry->id
KeyOf(i) ==
    IF i = 0 \/ heap[inputs[i]].id = NULL THEN "" ELSE CStr(heap, heap[inputs[i]].id)

(***************************************************************************)
(* Part II.  Streaming generation through the JNI bridge.                  *)
(*                                                                         *)
(* The entry point runs on the managed caller's thread; the engine's       *)
(* worker invokes the three callbacks the entry point handed to it.  The   *)
(* text is the sequence of the tokens appended to it.                      *)
(***************************************************************************)
Tokens == {"A", "B"}

\* racLlmComponentGenerateStream, racLlmComponentGenerateStreamWithCallback,
\* racVlmComponentProcessStream
Kinds == {"llm", "llmcb", "vlm"}
LlmKinds == {"llm", "llmcb"}
SinkKinds == {"llmcb", "vlm"}

\* the context as its default member initialisers leave it
FreshCtx ==
    [accumulated_text |-> <<>>, token_count |-> 0, is_complete |-> FALSE,
     has_error |-> FALSE, error_code |-> RAC_SUCCESS, error_message |-> "",
     completion_tokens |-> 0, onTokenExpectsBytes |-> TRUE]

\* the accumulation as it would be if it counted the token without appending it
AccumulateTokenCountOnly(c, t) ==
    [c EXCEPT !.token_count = @ + 1]

\* ctx->accumulated_text += token; ctx->token_count++
AccumulateToken(c, t) ==
    [c EXCEPT !.accumulated_text = Append(@, t), !.token_count = @ + 1]

\* the complete callbacks as they would be if they always took the count
CompleteCtxCountOnly(c, r) ==
    [c EXCEPT !.completion_tokens = c.token_count, !.is_complete = TRUE]

\* the complete callbacks; r is result->completion_tokens, or -1 for a null result
CompleteCtx(c, r) ==
    [c EXCEPT !.completion_tokens = IF r > 0 THEN r ELSE c.token_count,
              !.is_complete = TRUE]

\* the error callbacks; msg is None for a null error_message
ErrorCtx(c, code, msg) ==
    [c EXCEPT !.has_error = TRUE, !.error_code = code,
              !.error_message = IF msg = None THEN "Unknown error" ELSE msg[1],
              !.is_complete = TRUE]

\* the timeout branch as it would be without "ctx.has_error = true"
TimeoutCtxNoError(c) ==
    [c EXCEPT !.error_message = "Streaming timed out waiting for completion callback",
              !.is_complete = TRUE]

\* wait_for returned false
TimeoutCtx(c) ==
    [c EXCEPT !.has_error = TRUE,
              !.error_message = "Streaming timed out waiting for completion callback",
              !.is_complete = TRUE]

\* the LLM token callback as it would be ignoring the sink's answer
LlmTokenReturnIgnoresStop(outcome) == RAC_TRUE

\* what llm_stream_callback_token returns once the sink's onToken has come back
LlmTokenReturn(outcome) ==
    IF outcome = "throw" THEN RAC_TRUE
    ELSE IF outcome = "stop" THEN RAC_FALSE
    ELSE RAC_TRUE

\* what vlm_stream_callback_token returns once the sink's onToken has come back
VlmTokenReturn(outcome) ==
    IF outcome = "throw" THEN RAC_FALSE
    ELSE IF outcome = "stop" THEN RAC_FALSE
    ELSE RAC_TRUE

TokenReturn(k, outcome) ==
    IF k = "vlm" THEN VlmTokenReturn(outcome) ELSE LlmTokenReturn(outcome)

\* what an entry point hands back to the managed caller
NoResult == [kind |-> "none", text |-> <<>>, tokens_generated |-> 0, thrown |-> FALSE]
NullResult == [kind |-> "null", text |-> <<>>, tokens_generated |-> 0, thrown |-> FALSE]
ThrownResult == [kind |-> "null", text |-> <<>>, tokens_generated |-> 0, thrown |-> TRUE]
JsonResult(text, n) ==
    [kind |-> "json", text |-> text, tokens_generated |-> n, thrown |-> FALSE]

\* if (ctx.has_error) return nullptr; else the JSON of text and token count
EntryResult(c, text) ==
    IF c.has_error THEN NullResult ELSE JsonResult(text, c.completion_tokens)

\* the engine before a call
IdleEngine ==
    [state |-> "off", emitted |-> <<>>, stopped |-> FALSE, extra |-> 0,
     terminal |-> "none"]

NoCallback == [pc |-> "none", token |-> "", idx |-> 0]

\* the token callback as it would be handing the sink the first token again
TokenCallbackStale(k, c, t, n) ==
    IF k = "llm" THEN NoCallback
    ELSE [pc |-> "accumulated", token |-> c.accumulated_text[1], idx |-> n]

\* The token callback after its accumulation, c being the context then:
\* llm_stream_token_callback has returned; the other two go on to the sink
\* with their argument token, the n-th of the generation.
TokenCallback(k, c, t, n) ==
    IF k = "llm" THEN NoCallback
    ELSE [pc |-> "accumulated", token |-> t, idx |-> n]

FreshHist ==
    [accepted |-> FALSE, timedOut |-> FALSE, lateRef |-> FALSE, lateCtx |-> FALSE,
     raced |-> FALSE, lastOutcome |-> "none", lastRet |-> "none", stopAt |-> 0,
     stopText |-> <<>>, active |-> 0, crashed |-> FALSE, nulls |-> FALSE,
     completion |-> None, made |-> 0, freed |-> 0]

StreamInit ==
    /\ kind = "none"
    /\ pc = "idle"
    /\ gref = "none"
    /\ ctxLive = FALSE
    /\ waited = 0
    /\ result = NoResult
    /\ ctx = FreshCtx
    /\ eng = IdleEngine
    /\ cb = NoCallback
    /\ sinkLog = <<>>
    /\ hist = FreshHist

(***************************************************************************)
(* Part III.  Two threads on one registry.                                 *)
(*                                                                         *)
(* rac_lora_registry holds its map and a std::mutex.  register, remove,    *)
(* get, get_all and get_for_model check their arguments and then hold a    *)
(* lock_guard on handle->mutex until they return; rac_lora_registry_destroy *)
(* frees the entries, clears the map and deletes the registry without      *)
(* taking the mutex.  A thread's call is split at the points where another *)
(* thread's steps can fall between: before the lock is taken, between the  *)
(* lock and the work on the map, between the work and the release, and,    *)
(* for destroy, between the entries of its loop.                           *)
(***************************************************************************)
Threads == {1, 2}

LockedOps == {"register", "remove", "get", "get_all", "get_for_model"}

\* positions at which a thread is inside its operation's work on the map
\* and the entries
Working == {"in", "out", "dfree", "dclear", "ddelete"}

IdleThread ==
    [pc |-> "idle", op |-> "none", key |-> "", inp |-> 0, rc |-> RAC_SUCCESS,
     out |-> NoOut, todo |-> <<>>]

FreshRace == [uaf |-> FALSE, crashed |-> FALSE]

LockInit ==
    /\ reg = "live"
    /\ mutex = 0
    /\ thr = [t \in Threads |-> IdleThread]
    /\ race = FreshRace
    /\ nops = 0

(***************************************************************************)
(* Part IV.  The bridge's process-wide callback objects.                   *)
(*                                                                         *)
(* The platform adapter (g_platform_adapter, the nine g_method_* ids,      *)
(* g_adapter_mutex), the device manager's callbacks (g_device_jni_state)   *)
(* and the model-assignment callback (g_model_assignment_state).  The      *)
(* managed caller's thread installs and replaces them; the native library  *)
(* invokes the C callbacks on a thread of its own.  An install is split    *)
(* where the callbacks, which read the adapter and the device state        *)
(* without a lock, can see a difference; a callback is split between its   *)
(* test of the globals, the managed call and the return of that call.      *)
(* A global reference is the number of the install that created it, and a  *)
(* method id is the number of the install that resolved it.                *)
(***************************************************************************)
\* the C callbacks of rac_platform_adapter_t; g_method[n] is g_method_<n>
AdapterMethods ==
    {"log", "file_exists", "file_read", "file_write", "file_delete",
     "secure_get", "secure_set", "secure_delete", "now_ms"}

\* the file and secure-storage callbacks that report a result code
FileSecureMethods ==
    {"file_read", "file_write", "file_delete", "secure_get", "secure_set", "secure_delete"}

\* the C callbacks of rac_device_callbacks_t
DeviceMethods ==
    {"get_device_info", "get_device_id", "is_registered", "set_registered", "http_post"}

\* the methods racDeviceManagerSetCallbacks tests after resolving all five
DeviceVerified == {"get_device_id", "is_registered"}

\* The managed objects a caller passes, by class; 0 is the null object.
\* Class 1 has every method; the others lack some.
Classes == {1, 2, 3}

Lacks(cls) ==
    IF cls = 1 THEN {}
    ELSE IF cls = 2 THEN {"now_ms", "http_post"}
    ELSE {"secure_get", "get_device_id", "http_get"}

\* GetMethodID(class, name, signature) finds the method
Resolves(cls, name) == name \notin Lacks(cls)

\* the status codes the managed httpPost returns
StatusCodes == {199, 200, 299, 300}

RAC_ERROR_ADAPTER_NOT_SET == "RAC_ERROR_ADAPTER_NOT_SET"
RAC_ERROR_FILE_NOT_FOUND == "RAC_ERROR_FILE_NOT_FOUND"
RAC_ERROR_FILE_WRITE_FAILED == "RAC_ERROR_FILE_WRITE_FAILED"
RAC_ERROR_STORAGE_ERROR == "RAC_ERROR_STORAGE_ERROR"
RAC_ERROR_NETWORK_ERROR == "RAC_ERROR_NETWORK_ERROR"
RAC_ERROR_HTTP_REQUEST_FAILED == "RAC_ERROR_HTTP_REQUEST_FAILED"

\* what log and now_ms do without an adapter
NativeLog == "native_log"
SystemClock == "system_clock"

\* the installing thread outside any call; the fields keep the last call
IdleInstaller ==
    [pc |-> "idle", what |-> "none", arg |-> 0, prev |-> 0, rc |-> RAC_SUCCESS,
     pend |-> FALSE, auto |-> FALSE, fetched |-> FALSE, obj |-> 0,
     fetch_rc |-> RAC_SUCCESS]

\* the callback thread outside any callback; the fields keep the last one.
\* attached: the thread is attached to the managed runtime (a native thread
\* starts detached); did_attach: the local of that name in
\* model_assignment_http_get_callback
IdleCallback ==
    [pc |-> "idle", fam |-> "none", name |-> "", obj |-> 0, mid |-> 0,
     rc |-> RAC_SUCCESS, status |-> 0, pend |-> FALSE, threw |-> FALSE,
     calls |-> 0, noObject |-> FALSE, viaReleased |-> FALSE, mixed |-> FALSE,
     attached |-> FALSE, did_attach |-> FALSE,
     ret |-> [kind |-> "none", str |-> <<>>],
     out |-> [null |-> TRUE, result |-> <<>>, status_code |-> <<>>,
              response_body |-> <<>>, response_length |-> <<>>,
              error_message |-> <<>>]]

NoDeviceState ==
    [callback_obj |-> 0, method |-> [n \in DeviceMethods |-> 0], mtx |-> "free"]

NoAssignmentState ==
    [jvm |-> FALSE, callback_obj |-> 0, http_get_method |-> 0, mutex |-> "free",
     locks |-> 0, callbacks_registered |-> FALSE]

\* after JNI_OnLoad
BridgeInit ==
    /\ g_jvm = TRUE
    /\ g_platform_adapter = 0
    /\ g_method = [n \in AdapterMethods |-> 0]
    /\ g_adapter_mutex = "free"
    /\ g_device_jni_state = NoDeviceState
    /\ g_model_assignment_state = NoAssignmentState
    /\ grefs = <<>>
    /\ inst = IdleInstaller
    /\ cbk = IdleCallback

(***************************************************************************)
(* Part V.  The strings the device manager's callbacks hand to native code. *)
(*                                                                         *)
(* jni_device_get_id copies the managed string into the static std::string *)
(* g_cached_device_id and returns its c_str(); jni_device_get_info copies  *)
(* the fields of the managed JSON into the static std::strings of          *)
(* g_device_info_strings and stores their c_str() in out_info.  Two native *)
(* operations on two threads call them.  A std::string is [buf, cap, val]: *)
(* buffer 0 is the buffer inside the object, the others are heap buffers   *)
(* numbered as they are allocated.                                         *)
(***************************************************************************)
NativeThreads == {"native1", "native2"}

\* the strings the managed side returns: the empty one, and runs of one
\* letter up to one byte longer than the buffer inside a std::string
DeviceStrings ==
    {<<>>} \cup {[i \in 1..n |-> c] : n \in 1..(InlineCap + 1), c \in {"a", "b"}}

EmptyStdString == [buf |-> 0, cap |-> InlineCap, val |-> <<>>]

\* std::string::operator=(const char*): the bytes are written into the
\* buffer in use when they fit, else a buffer is allocated and the old one
\* freed
StdAssign(s, v, fresh) ==
    IF Len(v) <= s.cap THEN [s EXCEPT !.val = v]
    ELSE [buf |-> fresh, cap |-> Len(v), val |-> v]

\* a const char*: into a string literal, or into the buffer buf of the
\* static std::string src, with the bytes that were there when it was taken
NullPtr == [src |-> "nullptr", buf |-> 0, val |-> <<>>]
LiteralPtr == [src |-> "literal", buf |-> 0, val |-> <<>>]
StdCStr(src, s) == [src |-> src, buf |-> s.buf, val |-> s.val]

\* the static std::string a pointer points into
Storage(src) ==
    IF src = "g_cached_device_id" THEN g_cached_device_id
    ELSE g_device_info_strings.device_model

\* the pointer still points at the bytes it pointed at when it was handed out
PtrIntact(p) ==
    p.src \in {"g_cached_device_id", "g_device_info_strings.device_model"} =>
        /\ Storage(p.src).buf = p.buf
        /\ Storage(p.src).val = p.val

IdleNative == [pc |-> "idle", fn |-> "none", str |-> <<>>, ptr |-> NullPtr,
               bad |-> FALSE]

DevInit ==
    /\ g_cached_device_id = EmptyStdString
    /\ g_device_info_strings = [device_model |-> EmptyStdString, mtx |-> "free"]
    /\ dev = [t \in NativeThreads |-> IdleNative]
    /\ dbuf = 0
    /\ dcalls = 0

(***************************************************************************)
(* Part VI.  Telemetry manager and analytics route.                        *)
(*                                                                         *)
(* racTelemetryManagerCreate, racTelemetryManagerDestroy and               *)
(* racTelemetryManagerSetHttpCallback hold g_telemetry_jni_state.mtx from  *)
(* their first access to their return; racAnalyticsEventsSetCallback and   *)
(* jni_analytics_event_callback hold g_analytics_telemetry_mutex.  The     *)
(* native telemetry managers live at addresses 1..MaxManagers (0 is        *)
(* nullptr); each manager created has a number of its own.  telemetry is   *)
(* the sequence of the calls the bridge has made on native managers.       *)
(***************************************************************************)
ManagerAddrs == 1..MaxManagers

NoManager == [live |-> FALSE, id |-> 0]

\* a call of the native telemetry API on the manager at address a
TelemetryCall(fn, a) ==
    [fn |-> fn, id |-> managers[a].id, live |-> managers[a].live]

IdleEmitter == [pc |-> "idle", data |-> FALSE]

TelemetryInit ==
    /\ g_telemetry_jni_state = [manager |-> 0, http_callback_obj |-> FALSE]
    /\ g_analytics_telemetry_manager = 0
    /\ g_analytics_telemetry_mutex = "free"
    /\ managers = [a \in ManagerAddrs |-> NoManager]
    /\ analytics_callback = FALSE
    /\ emit = IdleEmitter
    /\ telemetry = <<>>
    /\ route = [off |-> FALSE, crossed |-> FALSE, dropped |-> FALSE,
                valid |-> FALSE, stale |-> FALSE]
    /\ tcalls = 0

(***************************************************************************)
(* Part VII.  Component lifecycle through the bridge.                      *)
(*                                                                         *)
(* One component per capability, created; the bridge's load, verb, cancel  *)
(* and unload entry points pass the handle to the native component.  The   *)
(* native components are the state machine created -> loaded <-> running   *)
(* -> loaded -> created.                                                   *)
(***************************************************************************)
Capabilities == {"llm", "stt", "tts", "vlm"}

\* the native function each capability's cancel entry point calls
CancelCalls(cap) == IF cap \in {"stt", "tts"} THEN "unload" ELSE "cancel"

\* the states in which the component holds a model
ModelLoaded == {"loaded", "running"}

\* rac_<cap>_component_load_model: created -> loaded on success
NativeLoadModel(st, ok) == IF st = "created" /\ ok THEN "loaded" ELSE st

\* rac_<cap>_component_cancel: the running verb is told to stop; the model
\* stays
NativeCancel(st) == st

\* rac_<cap>_component_unload: the model is released
NativeUnload(st) == IF st \in ModelLoaded THEN "created" ELSE st

NativeCall(fn, st) == IF fn = "unload" THEN NativeUnload(st) ELSE NativeCancel(st)

NoComponentCall == [cap |-> "none", op |-> "none", handle |-> FALSE,
                    before |-> "created", rc |-> RAC_SUCCESS]

ComponentInit ==
    /\ comp = [c \in Capabilities |-> "created"]
    /\ clast = NoComponentCall
    /\ ccalls = 0

(***************************************************************************)
(* Part VIII.  The JSON the bridge builds: racToolCallParse,               *)
(* modelInfoToJson and loraEntryToJson.  A C string is a sequence of       *)
(* one-character strings; a nullable C string is None or Some(chars).  A   *)
(* text the bridge builds is a sequence of tokens: the characters of the   *)
(* values it copies in, and one token for each literal it appends.         *)
(***************************************************************************)
\* the nullable string fields of a native record
NativeStrings == {None, Some(<<>>), Some(<<"a">>)}

\* rac_tool_call_t as rac_tool_call_parse leaves it for an output
CleanTexts == {None, Some(<<>>), Some(<<"h", "\"", "\n">>)}
ToolNames == {None, Some(<<"f">>)}
ArgumentStrings ==
    {<<>>, <<" ">>, <<" ", "\t", "\n", "\r">>,
     <<"{", "}">>, <<" ", "{", "}">>, <<"\n", "\t", "[", "1", "]">>, <<"[">>,
     <<"{", "x">>, <<"x">>, <<" ", "x", "{">>, <<"\f", "{", "}">>,
     <<"n", "u", "l", "l">>, <<"\"", "a", "\"">>}
ArgumentTexts == {None} \cup {Some(s) : s \in ArgumentStrings}
CallIds == {0, 42}

\* the results of the parser: with a tool call, without one, and a failed
\* parse, after which the bridge reads the record it declared without
\* initialising it (wild: its pointers are not addresses of strings)
ToolCallResults ==
    [rc : {RAC_SUCCESS}, wild : {FALSE}, has_tool_call : {TRUE},
     clean_text : CleanTexts, tool_name : ToolNames,
     arguments_json : ArgumentTexts, call_id : CallIds]
    \cup
    [rc : {RAC_SUCCESS}, wild : {FALSE}, has_tool_call : {FALSE},
     clean_text : CleanTexts, tool_name : {None},
     arguments_json : {None}, call_id : {0}]
    \cup
    [rc : {RAC_ERROR_INVALID_ARGUMENT}, wild : BOOLEAN, has_tool_call : BOOLEAN,
     clean_text : {None, Some(<<>>)}, tool_name : {None},
     arguments_json : {None, Some(<<"x">>)}, call_id : {0}]

\* rac_model_info_t as modelInfoToJson reads it
NullRecord == [null |-> TRUE]
ModelInfos ==
    [null : {FALSE}, id : NativeStrings, name : NativeStrings,
     category : {1}, format : {2}, framework : {3},
     download_url : NativeStrings, local_path : NativeStrings,
     download_size : {0}, context_length : {0},
     supports_thinking : {FALSE}, supports_lora : {TRUE},
     description : NativeStrings]

\* rac_lora_entry_t as loraEntryToJson reads it
CompatibleIdArrays == {None, Some(<<>>), Some(<<None, Some(<<"m">>)>>)}
LoraJsonEntries ==
    [null : {FALSE}, id : NativeStrings, name : NativeStrings,
     description : NativeStrings, download_url : NativeStrings,
     filename : NativeStrings, file_size : {0}, default_scale : {1},
     compatible_model_ids : CompatibleIdArrays]

NoJsonCall == [fn |-> "none", arg |-> NullRecord, ret |-> NullRecord]

JsonInit == jcall = NoJsonCall

(***************************************************************************)
(* Actions of the registry specification.                                  *)
(***************************************************************************)
RegInit ==
    /\ \E b \in {BuildInputs([m |-> Mem(EmptyHeap, 0), copy |-> NULL], <<>>, 1)} :
          /\ heap = b.heap
          /\ inputs = b.ptrs
    /\ entries = EmptyMap
    /\ out = NoOut
    /\ call = [op |-> "none", key |-> "", inp |-> 0, rc |-> RAC_SUCCESS,
               handle_ok |-> TRUE, size |-> 0, had |-> FALSE, nullarg |-> "none",
               used |-> {}, fail |-> 0]
    /\ shadow = EmptyMap
    /\ oomPrev = EmptyMap
    /\ touched = FALSE
    /\ ncalls = 0

\* register(handle, i-th record of the caller); i = 0 passes a null entry
Register(i, handle_ok, fail) ==
    /\ ncalls < MaxCalls
    /\ i # 0 => inputs[i] # NULL
    /\ \E r \in {LoraRegistryRegister(heap, entries, handle_ok,
                                       IF i = 0 THEN NULL ELSE inputs[i], fail)} :
          /\ heap' = r.heap
          /\ entries' = r.entries
          /\ call' = [CallRec("register", KeyOf(i), i, r.rc, handle_ok) EXCEPT !.fail = fail]
          /\ shadow' = IF r.rc = RAC_SUCCESS
                       THEN MapPut(shadow, KeyOf(i), EntryValue(heap, inputs[i]))
                       ELSE shadow
          /\ oomPrev' = IF r.rc = RAC_SUCCESS THEN MapDel(oomPrev, KeyOf(i))
                        ELSE IF r.rc = RAC_ERROR_OUT_OF_MEMORY
                                /\ KeyOf(i) \in DOMAIN entries
                        THEN MapPut(oomPrev, KeyOf(i),
                                    EntryValue(heap, entries[KeyOf(i)]))
                        ELSE oomPrev
    /\ ncalls' = ncalls + 1
    /\ UNCHANGED <<inputs, out, touched>>
    /\ UNCHANGED notRegVars

Remove(adapter_id, handle_ok) ==
    /\ ncalls < MaxCalls
    /\ \E r \in {LoraRegistryRemove(heap, entries, handle_ok, adapter_id)} :
          /\ heap' = r.heap
          /\ entries' = r.entries
          /\ call' = CallRec("remove", adapter_id, 0, r.rc, handle_ok)
          /\ shadow' = IF r.rc = RAC_SUCCESS THEN MapDel(shadow, adapter_id) ELSE shadow
          /\ oomPrev' = IF r.rc = RAC_SUCCESS THEN MapDel(oomPrev, adapter_id) ELSE oomPrev
    /\ ncalls' = ncalls + 1
    /\ UNCHANGED <<inputs, out, touched>>
    /\ UNCHANGED notRegVars

\* the caller holds at most one result at a time: it frees the last one
\* before it reads again
Get(adapter_id, handle_ok, fail) ==
    /\ ncalls < MaxCalls
    /\ out = NoOut
    /\ \E r \in {LoraRegistryGet(heap, entries, out, handle_ok, adapter_id, fail)} :
          /\ heap' = r.heap
          /\ out' = r.out
          /\ call' = [CallRec("get", adapter_id, 0, r.rc, handle_ok) EXCEPT !.fail = fail]
    /\ ncalls' = ncalls + 1
    /\ UNCHANGED <<entries, inputs, shadow, oomPrev, touched>>
    /\ UNCHANGED notRegVars

GetAll(handle_ok, fail) ==
    /\ ncalls < MaxCalls
    /\ out = NoOut
    /\ \E r \in {LoraRegistryGetAll(heap, entries, out, handle_ok, fail)} :
          /\ heap' = r.heap
          /\ out' = r.out
          /\ call' = [CallRec("get_all", "", 0, r.rc, handle_ok) EXCEPT !.fail = fail]
    /\ ncalls' = ncalls + 1
    /\ UNCHANGED <<entries, inputs, shadow, oomPrev, touched>>
    /\ UNCHANGED notRegVars

GetForModel(model_id, handle_ok, fail) ==
    /\ ncalls < MaxCalls
    /\ out = NoOut
    /\ \E r \in {LoraRegistryGetForModel(heap, entries, out, handle_ok, model_id, fail)} :
          /\ heap' = r.heap
          /\ out' = r.out
          /\ call' = [CallRec("get_for_model", model_id, 0, r.rc, handle_ok) EXCEPT !.fail = fail]
    /\ ncalls' = ncalls + 1
    /\ UNCHANGED <<entries, inputs, shadow, oomPrev, touched>>
    /\ UNCHANGED notRegVars

\* the caller writes into the record it passed to register
CallerMutateInput(i) ==
    /\ ncalls < MaxCalls
    /\ inputs[i] # NULL
    /\ heap' = Scribble(heap, EntryBlocks(heap, inputs[i]) \ {heap[inputs[i]].id})
    /\ heap' # heap
    /\ call' = CallRec("mutate_input", "", i, RAC_SUCCESS, TRUE)
    /\ touched' = TRUE
    /\ ncalls' = ncalls + 1
    /\ UNCHANGED <<entries, inputs, out, shadow, oomPrev>>
    /\ UNCHANGED notRegVars

\* the caller frees the record it passed to register
CallerFreeInput(i) ==
    /\ ncalls < MaxCalls
    /\ inputs[i] # NULL
    /\ heap' = FreeLoraEntry(heap, inputs[i])
    /\ inputs' = [inputs EXCEPT ![i] = NULL]
    /\ call' = CallRec("free_input", "", i, RAC_SUCCESS, TRUE)
    /\ touched' = TRUE
    /\ ncalls' = ncalls + 1
    /\ UNCHANGED <<entries, out, shadow, oomPrev>>
    /\ UNCHANGED notRegVars

\* the caller writes into the records a read returned
CallerMutateResult ==
    /\ heap' = Scribble(heap, OutBlocks(heap, out))
    /\ heap' # heap
    /\ call' = CallRec("mutate_result", "", 0, RAC_SUCCESS, TRUE)
    /\ touched' = TRUE
    /\ UNCHANGED <<entries, inputs, out, shadow, oomPrev, ncalls>>
    /\ UNCHANGED notRegVars

\* rac_lora_entry_free(out_entry); rac_lora_entry_array_free(out_entries, out_count)
CallerFreeResult ==
    /\ out # NoOut
    /\ heap' = LoraEntryArrayFree(FreeLoraEntry(heap, out.entry), out.entries, 1, out.count)
    /\ out' = NoOut
    /\ call' = CallRec("free_result", "", 0, RAC_SUCCESS, TRUE)
    /\ touched' = (touched \/ heap' # heap)
    /\ UNCHANGED <<entries, inputs, shadow, oomPrev, ncalls>>
    /\ UNCHANGED notRegVars

\* the operations of the registry that take its handle
RegistryOps == {"register", "remove", "get", "get_all", "get_for_model"}

\* the pointer arguments each operation tests beside the handle before it
\* takes the mutex (register's null entry is Register with input 0)
PointerArguments(op) ==
    CASE op = "register" -> {"entry->id"}
      [] op = "remove" -> {"adapter_id"}
      [] op = "get" -> {"adapter_id", "out_entry"}
      [] op = "get_all" -> {"out_entries", "out_count"}
      [] op = "get_for_model" -> {"model_id", "out_entries", "out_count"}

\* the first statement of every operation
ArgumentCheck(handle_ok, args_ok) ==
    IF ~handle_ok \/ ~args_ok THEN RAC_ERROR_INVALID_ARGUMENT ELSE RAC_SUCCESS

\* an operation called on the registry with one pointer argument null: it
\* returns from its first statement
NullArgumentCall(op, arg, key) ==
    /\ ncalls < MaxCalls
    /\ arg \in PointerArguments(op)
    /\ key # "" => (op = "get" /\ arg = "out_entry")
    /\ call' = [CallRec(op, key, 0, ArgumentCheck(TRUE, FALSE), TRUE)
                   EXCEPT !.nullarg = arg]
    /\ ncalls' = ncalls + 1
    /\ UNCHANGED <<heap, entries, inputs, out, shadow, oomPrev, touched>>
    /\ UNCHANGED notRegVars

RegNext ==
    \/ \E i \in 0..NumInputs : \E f \in 0..RegisterAllocs(i) : Register(i, TRUE, f)
    \/ \E i \in 0..NumInputs : Register(i, FALSE, 0)
    \/ \E k \in Ids, ok \in BOOLEAN : Remove(k, ok)
    \/ \E k \in Ids : \E f \in 0..GetAllocs(k) : Get(k, TRUE, f)
    \/ \E k \in Ids : Get(k, FALSE, 0)
    \/ \E f \in 0..ArrayAllocs(EntriesOf(entries)) : GetAll(TRUE, f)
    \/ GetAll(FALSE, 0)
    \/ \E m \in ModelIds :
          \E f \in 0..ArrayAllocs(Matches(heap, entries, m, MapOrder(entries))) :
             GetForModel(m, TRUE, f)
    \/ \E m \in ModelIds : GetForModel(m, FALSE, 0)
    \/ \E op \in RegistryOps, key \in Ids \cup {""} :
          \E arg \in PointerArguments(op) : NullArgumentCall(op, arg, key)
    \/ \E i \in 1..NumInputs : CallerMutateInput(i)
    \/ \E i \in 1..NumInputs : CallerFreeInput(i)
    \/ CallerMutateResult
    \/ CallerFreeResult

Init == RegInit /\ StreamInit /\ LockInit /\ BridgeInit /\ DevInit
        /\ TelemetryInit /\ ComponentInit /\ JsonInit

Spec == Init /\ [][RegNext]_vars

(***************************************************************************)
(* Properties of the registry.                                             *)
(***************************************************************************)
\* what the registry holds, read through its pointers
StoredValue(k) == EntryValue(heap, entries[k])

\* the records of a returned array, in order
OutValues == [i \in 1..out.count |-> EntryValue(heap, heap[out.entries].elems[i])]

\* C1: a register that fails with out-of-memory, whichever allocation of the
\* deep copy failed, leaves the entry stored under that id before the call
\* stored and unchanged in every field, and a later successful get of that id
\* returns exactly that record.
C1_FailedRegisterKeepsEntry ==
    \A k \in DOMAIN oomPrev :
        /\ k \in DOMAIN entries
        /\ StoredValue(k) = oomPrev[k]
        /\ (call.op = "get" /\ call.key = k /\ call.rc = RAC_SUCCESS)
              => EntryValue(heap, out.entry) = oomPrev[k]

\* a get that succeeds on an id whose last register failed with out-of-memory
C1_Witness ==
    /\ call.op = "get" /\ call.rc = RAC_SUCCESS
    /\ call.key \in DOMAIN oomPrev
    /\ out.entry # NULL

\* C2: a successful register under an id that is already stored leaves the
\* number of entries as it was, the record stored under the id equals the
\* record passed in every field (the ordered compatible_model_ids included),
\* and a successful get returns the record registered last under its id.
C2_ReplaceKeepsOneEntry ==
    /\ (call.op = "register" /\ call.rc = RAC_SUCCESS) =>
          /\ call.key \in DOMAIN entries
          /\ StoredValue(call.key) = shadow[call.key]
          /\ Cardinality(DOMAIN entries) = IF call.had THEN call.size ELSE call.size + 1
    /\ (call.op = "get" /\ call.rc = RAC_SUCCESS) =>
          EntryValue(heap, out.entry) = shadow[call.key]

\* the second of two successful registers under one id, passing another record
C2_Witness ==
    /\ call.op = "register" /\ call.rc = RAC_SUCCESS /\ call.had
    /\ call.inp = 1
    /\ StoredValue("l1").compatible_model_ids = <<Some("mA"), Some("mB")>>
    /\ Cardinality(DOMAIN entries) = 1

RegistryBlocks == UNION {EntryBlocks(heap, entries[k]) : k \in DOMAIN entries}

CallerBlocks ==
    OutBlocks(heap, out)
    \cup UNION {EntryBlocks(heap, inputs[i]) : i \in {j \in 1..NumInputs : inputs[j] # NULL}}

\* C3: no block of a stored entry is a block of a record of the caller (one it
\* passed to register, or one a read returned); once the caller has changed or
\* freed records of its own, every stored entry still has the value registered
\* last, and every successful read returns those values.
C3_NoSharedStorage ==
    /\ RegistryBlocks \cap CallerBlocks = {}
    /\ touched =>
          /\ DOMAIN entries = DOMAIN shadow
          /\ \A k \in DOMAIN entries : StoredValue(k) = shadow[k]
          /\ (call.op = "get" /\ call.rc = RAC_SUCCESS) =>
                EntryValue(heap, out.entry) = shadow[call.key]
          /\ (call.op = "get_all" /\ call.rc = RAC_SUCCESS) =>
                OutValues = [i \in 1..Len(MapOrder(shadow)) |-> shadow[MapOrder(shadow)[i]]]

\* a read that succeeds after the caller scribbled over a record a read
\* returned earlier and freed the record it had registered
C3_Witness ==
    /\ touched
    /\ call.op = "get" /\ call.rc = RAC_SUCCESS
    /\ \E i \in 1..NumInputs : inputs[i] = NULL

\* the ids whose registered list holds model id m
Compatible(m) ==
    {k \in DOMAIN shadow :
        \E i \in DOMAIN shadow[k].compatible_model_ids :
            shadow[k].compatible_model_ids[i] = Some(m)}

\* C4: a successful get_for_model(m) returns one copy of each adapter whose
\* registered list has an element equal to m, and nothing else: as many
\* records as there are such adapters, each of them exactly once, also when m
\* occurs twice in a list; an adapter without a list is never returned.
C4_GetForModelMatches ==
    (call.op = "get_for_model" /\ call.rc = RAC_SUCCESS) =>
        /\ out.count = Cardinality(Compatible(call.key))
        /\ out.count = 0 => out.entries = NULL
        /\ \A k \in Compatible(call.key) :
              Cardinality({i \in 1..out.count : OutValues[i] = shadow[k]}) = 1

\* get_for_model("mB") with l1 = [mA, mB] and l2 = [mB, mB] stored returns both
C4_Witness ==
    /\ call.op = "get_for_model" /\ call.rc = RAC_SUCCESS /\ call.key = "mB"
    /\ out.count = 2
    /\ shadow["l2"].compatible_model_ids = <<Some("mB"), Some("mB")>>

\* C11: an entry point called with the invalid (null) handle reports the
\* result code invalid-handle, here for the operations of the registry.
C11_InvalidHandleReported ==
    (call.op \in RegistryOps /\ ~call.handle_ok) => call.rc = RAC_ERROR_INVALID_HANDLE

\* a call made on a live registry with every pointer argument present
ValidCall == call.handle_ok /\ call.nullarg = "none"

\* C13: get_all on a registry that holds no entry, and get_for_model for a
\* model id that no stored adapter lists, return success with a null array
\* pointer and the count 0, never an error code.
C13_EmptyResultIsSuccess ==
    /\ (call.op = "get_all" /\ ValidCall /\ call.size = 0) =>
          /\ call.rc = RAC_SUCCESS
          /\ out.entries = NULL /\ out.count = 0
    /\ (call.op = "get_for_model" /\ ValidCall /\ Compatible(call.key) = {}) =>
          /\ call.rc = RAC_SUCCESS
          /\ out.entries = NULL /\ out.count = 0

\* get_for_model("mC") on a registry that holds adapters, none of which lists
\* "mC"
C13_Witness ==
    /\ call.op = "get_for_model" /\ call.handle_ok /\ call.key = "mC"
    /\ call.size > 0
    /\ Compatible("mC") = {}
    /\ call.rc = RAC_SUCCESS /\ out.count = 0

(***************************************************************************)
(* Part II, actions.  The entry point's thread.                            *)
(***************************************************************************)
\* a callback of the call runs now: note whether the reference is released
\* and whether the context has gone out of scope
Late(h) == [h EXCEPT !.lateRef = @ \/ gref = "released", !.lateCtx = @ \/ ~ctxLive]

\* The entry point up to the engine's start call.  handle_ok: handle != 0;
\* cb_ok: tokenCallback != null; m: the onToken method GetMethodID finds
\* ("bytes" for ([B)Z, "string" for (Ljava/lang/String;)Z, "none").
Enter(k, handle_ok, cb_ok, m) ==
    /\ pc = "idle"
    /\ ~hist.crashed
    /\ kind' = k
    /\ IF ~handle_ok \/ (k \in SinkKinds /\ (~cb_ok \/ m = "none"))
       THEN /\ pc' = "returned"
            /\ result' = NullResult
            /\ UNCHANGED <<gref, ctxLive, ctx, eng, hist>>
       ELSE /\ pc' = "starting"
            /\ gref' = IF k \in SinkKinds THEN "held" ELSE "none"
            /\ hist' = [hist EXCEPT !.made = IF k \in SinkKinds THEN @ + 1 ELSE @]
            /\ ctxLive' = TRUE
            /\ ctx' = [FreshCtx EXCEPT !.onTokenExpectsBytes = (m = "bytes")]
            /\ eng' = [IdleEngine EXCEPT !.state = "called"]
            /\ UNCHANGED result
    /\ UNCHANGED <<waited, cb, sinkLog>>
    /\ UNCHANGED notStreamVars

\* the rejected path as it would be if it returned without releasing the sink
RejectedRefKept(k, g) == g

\* "if (status != RAC_SUCCESS)" of the LLM entry points: the one with a sink
\* deletes its global reference before it returns
RejectedRef(k, g) == IF k = "llmcb" THEN "released" ELSE g

\* rac_llm_component_generate_stream / rac_vlm_component_process_stream has
\* returned its status to the entry point
StartReturn ==
    /\ pc = "starting"
    /\ ~hist.crashed
    /\ eng.state # "called"
    /\ IF kind = "vlm"
       THEN /\ gref' = "released"
            /\ hist' = [hist EXCEPT !.freed = @ + 1]
            /\ pc' = "checking"
            /\ UNCHANGED <<ctxLive, result>>
       ELSE IF eng.state = "rejected"
       THEN /\ gref' = RejectedRef(kind, gref)
            /\ hist' = [hist EXCEPT !.freed = IF RejectedRef(kind, gref) # gref
                                               THEN @ + 1 ELSE @]
            /\ pc' = "returned"
            /\ ctxLive' = FALSE
            /\ result' = IF kind = "llm" THEN ThrownResult ELSE NullResult
       ELSE /\ pc' = "waiting"
            /\ UNCHANGED <<gref, ctxLive, result, hist>>
    /\ UNCHANGED <<kind, waited, ctx, eng, cb, sinkLog>>
    /\ UNCHANGED notStreamVars

\* racVlmComponentProcessStream from "if (status != RAC_SUCCESS)" to its return.
\* It reads the context without a lock: while the worker may still write it
\* the text read is the text or a torn value.
VlmFinish(torn) ==
    /\ pc = "checking"
    /\ ~hist.crashed
    /\ torn => eng.state = "running"
    /\ pc' = "returned"
    /\ ctxLive' = FALSE
    /\ result' = IF eng.state = "rejected" THEN NullResult
                 ELSE EntryResult(ctx, IF torn THEN <<"<torn>">>
                                       ELSE ctx.accumulated_text)
    /\ hist' = [hist EXCEPT !.raced = @ \/ eng.state = "running"]
    /\ UNCHANGED <<kind, gref, waited, ctx, eng, cb, sinkLog>>
    /\ UNCHANGED notStreamVars

\* a minute passes in wait_for
Tick ==
    /\ pc = "waiting"
    /\ ~hist.crashed
    /\ ~ctx.is_complete
    /\ waited < kStreamWaitTimeout
    /\ waited' = waited + 1
    /\ UNCHANGED <<kind, pc, gref, ctxLive, result, ctx, eng, cb, sinkLog, hist>>
    /\ UNCHANGED notStreamVars

\* wait_for returns true: the predicate ctx.is_complete holds
WaitDone ==
    /\ pc = "waiting"
    /\ ~hist.crashed
    /\ ctx.is_complete
    /\ pc' = "woken"
    /\ UNCHANGED <<kind, gref, ctxLive, waited, result, ctx, eng, cb, sinkLog, hist>>
    /\ UNCHANGED notStreamVars

\* wait_for returns false: the time limit has passed and the predicate is false
WaitTimeout ==
    /\ pc = "waiting"
    /\ ~hist.crashed
    /\ ~ctx.is_complete
    /\ waited = kStreamWaitTimeout
    /\ ctx' = TimeoutCtx(ctx)
    /\ hist' = [hist EXCEPT !.timedOut = TRUE]
    /\ pc' = "woken"
    /\ UNCHANGED <<kind, gref, ctxLive, waited, result, eng, cb, sinkLog>>
    /\ UNCHANGED notStreamVars

\* env->DeleteGlobalRef(globalCallback) after the wait
ReleaseRef ==
    /\ pc = "woken"
    /\ kind = "llmcb"
    /\ ~hist.crashed
    /\ gref' = "released"
    /\ hist' = [hist EXCEPT !.freed = @ + 1]
    /\ pc' = "finishing"
    /\ UNCHANGED <<kind, ctxLive, waited, result, ctx, eng, cb, sinkLog>>
    /\ UNCHANGED notStreamVars

\* the LLM entry points from "if (ctx.has_error)" to their return
LlmFinish ==
    /\ \/ pc = "woken" /\ kind = "llm"
       \/ pc = "finishing"
    /\ ~hist.crashed
    /\ result' = EntryResult(ctx, ctx.accumulated_text)
    /\ pc' = "returned"
    /\ ctxLive' = FALSE
    /\ UNCHANGED <<kind, gref, waited, ctx, eng, cb, sinkLog, hist>>
    /\ UNCHANGED notStreamVars

(***************************************************************************)
(* The engine and its worker.  The engine is not part of the bridge: it    *)
(* accepts or rejects the call, then one worker emits tokens one at a      *)
(* time through the token callback and ends the generation with exactly    *)
(* one of the complete and the error callback; told to stop, it ends with  *)
(* the complete callback after at most MaxExtra further tokens.  It may    *)
(* take any time and may run its callbacks before or after the start call  *)
(* returns.                                                                *)
(***************************************************************************)
EngineAccept ==
    /\ eng.state = "called"
    /\ ~hist.crashed
    /\ eng' = [eng EXCEPT !.state = "running"]
    /\ hist' = [hist EXCEPT !.accepted = TRUE]
    /\ UNCHANGED <<kind, pc, gref, ctxLive, waited, result, ctx, cb, sinkLog>>
    /\ UNCHANGED notStreamVars

EngineReject ==
    /\ eng.state = "called"
    /\ ~hist.crashed
    /\ eng' = [eng EXCEPT !.state = "rejected"]
    /\ UNCHANGED <<kind, pc, gref, ctxLive, waited, result, ctx, cb, sinkLog, hist>>
    /\ UNCHANGED notStreamVars

\* the worker is between callbacks
WorkerFree == eng.state = "running" /\ cb.pc = "none" /\ ~hist.crashed

CanEmit ==
    /\ WorkerFree
    /\ Len(eng.emitted) < MaxTokens
    /\ eng.stopped => eng.extra < MaxExtra

CanComplete == WorkerFree

CanFail == WorkerFree /\ ~eng.stopped

\* The engine emits token t and the token callback takes it in.
\* llm_stream_token_callback appends it under the mutex and returns RAC_TRUE;
\* llm_stream_callback_token and vlm_stream_callback_token append it and go on
\* to the sink.
EmitToken(t) ==
    /\ CanEmit
    /\ eng' = [eng EXCEPT !.emitted = Append(@, t),
                          !.extra = IF eng.stopped THEN @ + 1 ELSE @]
    /\ ctx' = AccumulateToken(ctx, t)
    /\ cb' = TokenCallback(kind, AccumulateToken(ctx, t), t, Len(eng.emitted) + 1)
    /\ hist' = Late(hist)
    /\ UNCHANGED <<kind, pc, gref, ctxLive, waited, result, sinkLog>>
    /\ UNCHANGED notStreamVars

\* The engine passes a null token: each token callback returns RAC_TRUE from
\* its first test and touches neither the context nor the sink.
EmitNullToken ==
    /\ CanEmit
    /\ ~hist.nulls
    /\ hist' = [hist EXCEPT !.nulls = TRUE]
    /\ UNCHANGED <<kind, pc, gref, ctxLive, waited, result, ctx, eng, cb, sinkLog>>
    /\ UNCHANGED notStreamVars

\* GetEnv / AttachCurrentThread, then CallBooleanMethod(ctx->callback, ...):
\* the sink's onToken starts with the token; if the thread cannot be attached
\* the callback returns RAC_TRUE without calling the sink
AttachAndCall(attached) ==
    /\ cb.pc = "accumulated"
    /\ ~hist.crashed
    /\ IF attached
       THEN /\ sinkLog' = Append(sinkLog, [idx |-> cb.idx, token |-> cb.token])
            /\ cb' = [cb EXCEPT !.pc = "inSink"]
            /\ hist' = [Late(hist) EXCEPT !.active = @ + 1]
       ELSE /\ cb' = NoCallback
            /\ hist' = [Late(hist) EXCEPT !.lastOutcome = "unattached",
                                          !.lastRet = RAC_TRUE]
            /\ UNCHANGED sinkLog
    /\ UNCHANGED <<kind, pc, gref, ctxLive, waited, result, ctx, eng>>
    /\ UNCHANGED notStreamVars

\* after the sink told the callback to stop for the first time: the token's
\* number and the text accumulated when the callback returns
NoteStop(h, outcome) ==
    IF outcome = "stop" /\ h.stopAt = 0
    THEN [h EXCEPT !.stopAt = cb.idx, !.stopText = ctx.accumulated_text]
    ELSE h

\* the sink's onToken comes back ("continue", "stop", or "throw" for a pending
\* exception) and the token callback returns to the engine
SinkReturn(outcome) ==
    /\ cb.pc = "inSink"
    /\ ~hist.crashed
    /\ eng' = [eng EXCEPT !.stopped = @ \/ TokenReturn(kind, outcome) = RAC_FALSE]
    /\ cb' = NoCallback
    /\ hist' = [NoteStop(Late(hist), outcome) EXCEPT
                   !.lastOutcome = outcome,
                   !.lastRet = TokenReturn(kind, outcome),
                   !.active = @ - 1]
    /\ UNCHANGED <<kind, pc, gref, ctxLive, waited, result, ctx, sinkLog>>
    /\ UNCHANGED notStreamVars

\* the engine ends the generation through the complete callback
EngineComplete(r) ==
    /\ CanComplete
    /\ eng' = [eng EXCEPT !.state = "done", !.terminal = "complete"]
    /\ ctx' = CompleteCtx(ctx, r)
    /\ hist' = [Late(hist) EXCEPT !.completion = Some(r)]
    /\ UNCHANGED <<kind, pc, gref, ctxLive, waited, result, cb, sinkLog>>
    /\ UNCHANGED notStreamVars

\* the engine ends the generation through the error callback
EngineError(msg) ==
    /\ CanFail
    /\ eng' = [eng EXCEPT !.state = "done", !.terminal = "error"]
    /\ ctx' = ErrorCtx(ctx, RAC_ERROR_INVALID_STATE, msg)
    /\ hist' = Late(hist)
    /\ UNCHANGED <<kind, pc, gref, ctxLive, waited, result, cb, sinkLog>>
    /\ UNCHANGED notStreamVars

\* A callback is about to touch a context that has gone out of scope, or to
\* call the sink through a released reference: the behaviour is undefined.
\* One outcome is that the callback runs on the stale memory (the actions
\* above); the other is that the process is aborted.
Fault ==
    /\ ~hist.crashed
    /\ \/ (eng.state = "running" /\ ~ctxLive)
       \/ (cb.pc = "accumulated" /\ gref = "released")
    /\ hist' = [hist EXCEPT !.crashed = TRUE]
    /\ UNCHANGED <<kind, pc, gref, ctxLive, waited, result, ctx, eng, cb, sinkLog>>
    /\ UNCHANGED notStreamVars

StreamNext ==
    \/ \E h \in BOOLEAN : Enter("llm", h, TRUE, "bytes")
    \/ \E h \in BOOLEAN, c \in BOOLEAN, m \in {"bytes", "string", "none"} :
          Enter("llmcb", h, c, m)
    \/ \E h \in BOOLEAN, c \in BOOLEAN, m \in {"bytes", "none"} : Enter("vlm", h, c, m)
    \/ StartReturn
    \/ \E torn \in BOOLEAN : VlmFinish(torn)
    \/ Tick
    \/ WaitDone
    \/ WaitTimeout
    \/ ReleaseRef
    \/ LlmFinish
    \/ EngineAccept
    \/ EngineReject
    \/ \E t \in Tokens : EmitToken(t)
    \/ EmitNullToken
    \/ \E a \in BOOLEAN : AttachAndCall(a)
    \/ \E o \in {"continue", "stop", "throw"} : SinkReturn(o)
    \/ \E r \in -1..MaxTokens : EngineComplete(r)
    \/ \E msg \in {None, Some("engine failed")} : EngineError(msg)
    \/ Fault

StreamSpec == Init /\ [][StreamNext]_vars

\* The entry point's own steps are taken when they can be; the engine's start
\* call returns; time passes.  Nothing is assumed of how fast the engine's
\* worker runs, or of whether it runs at all.
FairStreamSpec ==
    /\ StreamSpec
    /\ WF_vars(EngineAccept \/ EngineReject)
    /\ WF_vars(StartReturn)
    /\ WF_vars(Tick)
    /\ WF_vars(WaitDone)
    /\ WF_vars(WaitTimeout)
    /\ WF_vars(ReleaseRef)
    /\ WF_vars(LlmFinish)
    /\ WF_vars(\E torn \in BOOLEAN : VlmFinish(torn))

(***************************************************************************)
(* Properties of the streaming entry points.                               *)
(***************************************************************************)
\* C5: for every streaming entry point, once the engine has accepted the call
\* the entry point returns to the managed caller only after the complete or
\* the error callback of that call has fired.
C5_ReturnsAfterTerminal ==
    (pc = "returned" /\ hist.accepted) => eng.terminal # "none"

\* C6: no token, complete or error callback of a call runs after the sink's
\* global reference has been released, or after the entry point has returned
\* and its stack-allocated context has gone out of scope.
C6_NoCallbackAfterRelease == ~hist.lateRef /\ ~hist.lateCtx

C8_ThrowStops == hist.lastOutcome = "throw" => hist.lastRet = RAC_FALSE

\* the first k tokens of text are the first k tokens the engine emitted
HasFirstTokens(text, k) ==
    Len(text) >= k /\ SubSeq(text, 1, k) = SubSeq(eng.emitted, 1, k)

\* the sink has said stop at some token and the token callback has returned
\* stop for it with that token and its predecessors accumulated
StopTaken ==
    /\ hist.lastOutcome = "stop" => hist.lastRet = RAC_FALSE /\ eng.stopped
    /\ hist.stopAt > 0 => HasFirstTokens(hist.stopText, hist.stopAt)

\* the LLM entry point has returned after the sink said stop and the engine
\* ended through the complete callback
StoppedAndCompleted ==
    /\ kind = "llmcb"
    /\ hist.stopAt > 0
    /\ eng.terminal = "complete"
    /\ pc = "returned"

\* C9 as stated: when the sink answers "do not continue" for token k without
\* throwing, the token callback returns stop for that token with tokens 1..k
\* accumulated, and when the engine then ends through the complete callback
\* the entry point returns a non-null JSON result.
C9_StopThenCompleteReturnsJson ==
    /\ StopTaken
    /\ StoppedAndCompleted =>
          result.kind = "json" /\ HasFirstTokens(result.text, hist.stopAt)

\* C9 amended: the same, for a complete callback that fires before the wait's
\* time limit has expired.
C9_StopThenTimelyCompleteReturnsJson ==
    /\ StopTaken
    /\ StoppedAndCompleted /\ ~hist.timedOut =>
          result.kind = "json" /\ HasFirstTokens(result.text, hist.stopAt)

C9_Witness ==
    /\ StoppedAndCompleted
    /\ ~hist.timedOut
    /\ hist.stopAt = 2
    /\ result.kind = "json"

\* C10: within one generation the sink receives the tokens in the order the
\* engine emitted them, each as the engine emitted it, and no two onToken
\* invocations are in progress at the same time.
C10_InOrderNoOverlap ==
    /\ \A i \in 1..Len(sinkLog) :
          /\ sinkLog[i].idx <= Len(eng.emitted)
          /\ sinkLog[i].token = eng.emitted[sinkLog[i].idx]
    /\ \A i, j \in 1..Len(sinkLog) : i < j => sinkLog[i].idx < sinkLog[j].idx
    /\ hist.active <= 1

C10_Witness ==
    /\ Len(sinkLog) = 2
    /\ sinkLog[1].token # sinkLog[2].token
    /\ hist.active = 0

(***************************************************************************)
(* Part III, actions.                                                      *)
(***************************************************************************)
\* the registry is deleted, or its map holds a pointer to an entry that has
\* been freed
Dangling ==
    \/ reg = "destroyed"
    \/ \E k \in DOMAIN entries : heap[entries[k]].kind # "entry"

\* the work of a locked operation between taking and releasing the mutex
OpResult(op, key, inp) ==
    IF op = "register"
    THEN [out |-> NoOut] @@ LoraRegistryRegister(heap, entries, TRUE, inputs[inp], 0)
    ELSE IF op = "remove"
    THEN [out |-> NoOut] @@ LoraRegistryRemove(heap, entries, TRUE, key)
    ELSE IF op = "get"
    THEN [entries |-> entries] @@ LoraRegistryGet(heap, entries, NoOut, TRUE, key, 0)
    ELSE IF op = "get_all"
    THEN [entries |-> entries] @@ LoraRegistryGetAll(heap, entries, NoOut, TRUE, 0)
    ELSE [entries |-> entries]
         @@ LoraRegistryGetForModel(heap, entries, NoOut, TRUE, key, 0)

\* a thread calls a locked operation with a registry and valid arguments:
\* the argument test passes, the lock is not yet taken
BeginOp(t, op, key, inp) ==
    /\ ~race.crashed
    /\ reg = "live"
    /\ \A u \in Threads : thr[u].op # "destroy"
    /\ nops < MaxOps
    /\ thr[t].pc = "idle"
    /\ op = "register" => inputs[inp] # NULL
    /\ thr' = [thr EXCEPT ![t] = [IdleThread EXCEPT !.pc = "lock", !.op = op,
                                                     !.key = key, !.inp = inp]]
    /\ nops' = nops + 1
    /\ UNCHANGED <<reg, mutex, race>>
    /\ UNCHANGED <<regVars, notLockVars>>

\* std::lock_guard<std::mutex> lock(handle->mutex); on a registry that has
\* been deleted the mutex is freed memory
Lock(t) ==
    /\ ~race.crashed
    /\ thr[t].pc = "lock"
    /\ mutex = 0
    /\ mutex' = t
    /\ thr' = [thr EXCEPT ![t].pc = "in"]
    /\ race' = [race EXCEPT !.uaf = @ \/ reg = "destroyed"]
    /\ UNCHANGED <<reg, nops>>
    /\ UNCHANGED <<regVars, notLockVars>>

\* the operation's work under the mutex
Body(t) ==
    /\ ~race.crashed
    /\ thr[t].pc = "in"
    /\ ~Dangling
    /\ \E r \in {OpResult(thr[t].op, thr[t].key, thr[t].inp)} :
          /\ heap' = r.heap
          /\ entries' = r.entries
          /\ thr' = [thr EXCEPT ![t].pc = "out", ![t].rc = r.rc, ![t].out = r.out]
    /\ UNCHANGED <<reg, mutex, race, nops>>
    /\ UNCHANGED <<inputs, out, call, shadow, oomPrev, touched, ncalls>>
    /\ UNCHANGED notLockVars

\* the operation's work on a map whose entries destroy has freed, or on a
\* deleted registry: the reads go through dangling pointers, and the
\* operation either brings the process down or returns whatever it read
BodyRaced(t, crash) ==
    /\ ~race.crashed
    /\ thr[t].pc = "in"
    /\ Dangling
    /\ thr' = [thr EXCEPT ![t].pc = IF crash THEN "crashed" ELSE "out",
                          ![t].rc = "undefined"]
    /\ race' = [race EXCEPT !.uaf = TRUE, !.crashed = crash]
    /\ UNCHANGED <<reg, mutex, nops>>
    /\ UNCHANGED <<regVars, notLockVars>>

\* the lock_guard goes out of scope and the operation returns
Unlock(t) ==
    /\ ~race.crashed
    /\ thr[t].pc = "out"
    /\ mutex' = 0
    /\ thr' = [thr EXCEPT ![t].pc = "idle"]
    /\ race' = [race EXCEPT !.uaf = @ \/ reg = "destroyed"]
    /\ UNCHANGED <<reg, nops>>
    /\ UNCHANGED <<regVars, notLockVars>>

\* rac_lora_registry_destroy(handle) with a registry: the loop over the map
\* begins, no lock is taken
DestroyBegin(t) ==
    /\ ~race.crashed
    /\ reg = "live"
    /\ \A u \in Threads : thr[u].op # "destroy"
    /\ nops < MaxOps
    /\ thr[t].pc = "idle"
    /\ thr' = [thr EXCEPT ![t] = [IdleThread EXCEPT !.pc = "dfree", !.op = "destroy",
                                                     !.todo = MapOrder(entries)]]
    /\ nops' = nops + 1
    /\ UNCHANGED <<reg, mutex, race>>
    /\ UNCHANGED <<regVars, notLockVars>>

\* one turn of "for (auto& pair : handle->entries) free_lora_entry(pair.second)";
\* an element another thread has erased meanwhile leaves the iterator invalid
DestroyFreeEntry(t) ==
    /\ ~race.crashed
    /\ thr[t].pc = "dfree"
    /\ thr[t].todo # <<>>
    /\ IF Head(thr[t].todo) \in DOMAIN entries
       THEN /\ heap' = FreeLoraEntry(heap, entries[Head(thr[t].todo)])
            /\ thr' = [thr EXCEPT ![t].todo = Tail(@)]
            /\ race' = race
       ELSE /\ heap' = heap
            /\ thr' = [thr EXCEPT ![t].pc = "crashed"]
            /\ race' = [race EXCEPT !.uaf = TRUE, !.crashed = TRUE]
    /\ UNCHANGED <<reg, mutex, nops>>
    /\ UNCHANGED <<entries, inputs, out, call, shadow, oomPrev, touched, ncalls>>
    /\ UNCHANGED notLockVars

\* the loop is over
DestroyLoopEnd(t) ==
    /\ ~race.crashed
    /\ thr[t].pc = "dfree"
    /\ thr[t].todo = <<>>
    /\ thr' = [thr EXCEPT ![t].pc = "dclear"]
    /\ UNCHANGED <<reg, mutex, race, nops>>
    /\ UNCHANGED <<regVars, notLockVars>>

\* handle->entries.clear()
DestroyClear(t) ==
    /\ ~race.crashed
    /\ thr[t].pc = "dclear"
    /\ entries' = EmptyMap
    /\ thr' = [thr EXCEPT ![t].pc = "ddelete"]
    /\ UNCHANGED <<reg, mutex, race, nops>>
    /\ UNCHANGED <<heap, inputs, out, call, shadow, oomPrev, touched, ncalls>>
    /\ UNCHANGED notLockVars

\* delete handle: the map and the mutex are gone, whoever holds the mutex
DestroyDelete(t) ==
    /\ ~race.crashed
    /\ thr[t].pc = "ddelete"
    /\ reg' = "destroyed"
    /\ thr' = [thr EXCEPT ![t].pc = "idle"]
    /\ race' = [race EXCEPT !.uaf = @ \/ mutex # 0]
    /\ UNCHANGED <<mutex, nops>>
    /\ UNCHANGED <<regVars, notLockVars>>

LockNext ==
    \/ \E t \in Threads : \E i \in 1..NumInputs : BeginOp(t, "register", KeyOf(i), i)
    \/ \E t \in Threads : \E k \in Ids : BeginOp(t, "remove", k, 0)
    \/ \E t \in Threads : \E k \in Ids : BeginOp(t, "get", k, 0)
    \/ \E t \in Threads : BeginOp(t, "get_all", "", 0)
    \/ \E t \in Threads : \E m \in ModelIds : BeginOp(t, "get_for_model", m, 0)
    \/ \E t \in Threads : Lock(t)
    \/ \E t \in Threads : Body(t)
    \/ \E t \in Threads : \E crash \in BOOLEAN : BodyRaced(t, crash)
    \/ \E t \in Threads : Unlock(t)
    \/ \E t \in Threads : DestroyBegin(t)
    \/ \E t \in Threads : DestroyFreeEntry(t)
    \/ \E t \in Threads : DestroyLoopEnd(t)
    \/ \E t \in Threads : DestroyClear(t)
    \/ \E t \in Threads : DestroyDelete(t)

LockSpec == Init /\ [][LockNext]_vars

\* the threads inside an operation's work
WorkingThreads == {t \in Threads : thr[t].pc \in Working}

\* C12: every operation on an existing registry, destroy included, holds the
\* registry's mutex for the whole call, so that under any interleaving at most
\* one thread is inside an operation on the registry, and no operation reads
\* an entry, the map or the mutex after another has freed it.
C12_MutexCoversEveryOperation ==
    /\ Cardinality(WorkingThreads) <= 1
    /\ ~race.uaf

(***************************************************************************)
(* Part IV, actions.                                                       *)
(***************************************************************************)
\* the process has not been brought down by a call through a bad reference
Alive == cbk.pc # "crashed"

\* env->NewGlobalRef(obj): the reference created next
NextRef == Len(grefs) + 1

NewGlobalRef(gs, cls) == Append(gs, [cls |-> cls, live |-> TRUE])

\* env->DeleteGlobalRef(r)
DeleteGlobalRef(gs, r) == IF r = 0 THEN gs ELSE [gs EXCEPT ![r].live = FALSE]

\* the reference r can still be used
Live(r) == r # 0 /\ r <= Len(grefs) /\ grefs[r].live

\* the method ids an install of an object of class cls resolves as install n
ResolveAll(names, cls, n) == [m \in names |-> IF Resolves(cls, m) THEN n ELSE 0]

\* a GetMethodID that fails leaves NoSuchMethodError pending
ResolveThrows(names, cls) == \E m \in names : ~Resolves(cls, m)

\* the mutexes of the bridge that thread t holds
LocksHeldBy(t) ==
    (IF g_adapter_mutex = t THEN {"g_adapter_mutex"} ELSE {})
    \cup (IF g_device_jni_state.mtx = t THEN {"g_device_jni_state.mtx"} ELSE {})
    \cup (IF g_model_assignment_state.mutex = t
          THEN {"g_model_assignment_state.mutex"} ELSE {})

(***************************************************************************)
(* racSetPlatformAdapter(adapter) and JNI_OnUnload on the managed thread.  *)
(***************************************************************************)
\* std::lock_guard<std::mutex> lock(g_adapter_mutex)
SetAdapterLock(adapter) ==
    /\ Alive /\ g_jvm
    /\ inst.pc = "idle"
    /\ adapter # 0 => Len(grefs) < MaxInstalls
    /\ g_adapter_mutex = "free"
    /\ g_adapter_mutex' = "inst"
    /\ inst' = [IdleInstaller EXCEPT
                   !.pc = IF g_platform_adapter # 0 THEN "a_clean" ELSE "a_check",
                   !.what = "adapter", !.arg = adapter, !.prev = g_platform_adapter]
    /\ UNCHANGED <<g_jvm, g_platform_adapter, g_method, g_device_jni_state,
                   g_model_assignment_state, grefs, cbk>>
    /\ UNCHANGED notBridgeVars

\* env->DeleteGlobalRef(g_platform_adapter)
SetAdapterRelease ==
    /\ Alive
    /\ inst.pc = "a_clean"
    /\ grefs' = DeleteGlobalRef(grefs, g_platform_adapter)
    /\ inst' = [inst EXCEPT !.pc = "a_null"]
    /\ UNCHANGED <<g_jvm, g_platform_adapter, g_method, g_adapter_mutex,
                   g_device_jni_state, g_model_assignment_state, cbk>>
    /\ UNCHANGED notBridgeVars

\* g_platform_adapter = nullptr
SetAdapterNull ==
    /\ Alive
    /\ inst.pc = "a_null"
    /\ g_platform_adapter' = 0
    /\ inst' = [inst EXCEPT !.pc = "a_check"]
    /\ UNCHANGED <<g_jvm, g_method, g_adapter_mutex, g_device_jni_state,
                   g_model_assignment_state, grefs, cbk>>
    /\ UNCHANGED notBridgeVars

\* if (adapter == nullptr) return RAC_ERROR_INVALID_ARGUMENT
SetAdapterRejectNull ==
    /\ Alive
    /\ inst.pc = "a_check"
    /\ inst.arg = 0
    /\ g_adapter_mutex' = "free"
    /\ inst' = [inst EXCEPT !.pc = "idle", !.rc = RAC_ERROR_INVALID_ARGUMENT]
    /\ UNCHANGED <<g_jvm, g_platform_adapter, g_method, g_device_jni_state,
                   g_model_assignment_state, grefs, cbk>>
    /\ UNCHANGED notBridgeVars

\* g_platform_adapter = env->NewGlobalRef(adapter)
SetAdapterNewRef ==
    /\ Alive
    /\ inst.pc = "a_check"
    /\ inst.arg # 0
    /\ grefs' = NewGlobalRef(grefs, inst.arg)
    /\ g_platform_adapter' = NextRef
    /\ inst' = [inst EXCEPT !.pc = "a_ids"]
    /\ UNCHANGED <<g_jvm, g_method, g_adapter_mutex, g_device_jni_state,
                   g_model_assignment_state, cbk>>
    /\ UNCHANGED notBridgeVars

\* the nine GetMethodID calls, the C adapter struct, return RAC_SUCCESS
SetAdapterResolve ==
    /\ Alive
    /\ inst.pc = "a_ids"
    /\ g_method' = ResolveAll(AdapterMethods, inst.arg, g_platform_adapter)
    /\ g_adapter_mutex' = "free"
    /\ inst' = [inst EXCEPT !.pc = "idle", !.rc = RAC_SUCCESS,
                            !.pend = ResolveThrows(AdapterMethods, inst.arg)]
    /\ UNCHANGED <<g_jvm, g_platform_adapter, g_device_jni_state,
                   g_model_assignment_state, grefs, cbk>>
    /\ UNCHANGED notBridgeVars

\* JNI_OnUnload: lock, and the test of g_platform_adapter
OnUnloadLock ==
    /\ Alive /\ g_jvm
    /\ inst.pc = "idle"
    /\ g_adapter_mutex = "free"
    /\ g_adapter_mutex' = "inst"
    /\ inst' = [IdleInstaller EXCEPT
                   !.pc = IF g_platform_adapter # 0 THEN "u_clean" ELSE "u_jvm",
                   !.what = "unload", !.prev = g_platform_adapter]
    /\ UNCHANGED <<g_jvm, g_platform_adapter, g_method, g_device_jni_state,
                   g_model_assignment_state, grefs, cbk>>
    /\ UNCHANGED notBridgeVars

\* if (vm->GetEnv(...) == JNI_OK) env->DeleteGlobalRef(g_platform_adapter)
OnUnloadRelease(env_ok) ==
    /\ Alive
    /\ inst.pc = "u_clean"
    /\ grefs' = IF env_ok THEN DeleteGlobalRef(grefs, g_platform_adapter) ELSE grefs
    /\ inst' = [inst EXCEPT !.pc = "u_null"]
    /\ UNCHANGED <<g_jvm, g_platform_adapter, g_method, g_adapter_mutex,
                   g_device_jni_state, g_model_assignment_state, cbk>>
    /\ UNCHANGED notBridgeVars

\* g_platform_adapter = nullptr
OnUnloadNull ==
    /\ Alive
    /\ inst.pc = "u_null"
    /\ g_platform_adapter' = 0
    /\ inst' = [inst EXCEPT !.pc = "u_jvm"]
    /\ UNCHANGED <<g_jvm, g_method, g_adapter_mutex, g_device_jni_state,
                   g_model_assignment_state, grefs, cbk>>
    /\ UNCHANGED notBridgeVars

\* g_jvm = nullptr, and the lock_guard goes out of scope
OnUnloadFinish ==
    /\ Alive
    /\ inst.pc = "u_jvm"
    /\ g_jvm' = FALSE
    /\ g_adapter_mutex' = "free"
    /\ inst' = [inst EXCEPT !.pc = "idle"]
    /\ UNCHANGED <<g_platform_adapter, g_method, g_device_jni_state,
                   g_model_assignment_state, grefs, cbk>>
    /\ UNCHANGED notBridgeVars

(***************************************************************************)
(* The platform adapter's C callbacks on the native thread.                *)
(***************************************************************************)
\* the test at the head of a callback as it would be without its test of
\* g_platform_adapter
AdapterReadyIgnoresObject(env_ok, obj, mid) == env_ok /\ mid # 0

\* not (env == nullptr || g_platform_adapter == nullptr || g_method_x == nullptr)
AdapterReady(env_ok, obj, mid) == env_ok /\ obj # 0 /\ mid # 0

\* what a callback does when that test fails
AdapterFallback(name) ==
    IF name = "log" THEN NativeLog
    ELSE IF name = "file_exists" THEN RAC_FALSE
    ELSE IF name = "now_ms" THEN SystemClock
    ELSE RAC_ERROR_ADAPTER_NOT_SET

\* what a callback returns after its managed call; ret is "true" for true or
\* an object, "false" for false or null, "throw" for an exception, after
\* which the call returns false or null
AdapterResult(name, ret) ==
    IF name = "log" THEN "void"
    ELSE IF name = "now_ms" THEN "managed_clock"
    ELSE IF name = "file_exists" THEN (IF ret = "true" THEN RAC_TRUE ELSE RAC_FALSE)
    ELSE IF ret = "true" THEN RAC_SUCCESS
    ELSE IF name = "file_read" THEN RAC_ERROR_FILE_NOT_FOUND
    ELSE IF name = "secure_get" THEN RAC_ERROR_NOT_FOUND
    ELSE IF name \in {"file_write", "file_delete"} THEN RAC_ERROR_FILE_WRITE_FAILED
    ELSE RAC_ERROR_STORAGE_ERROR

\* getJNIEnv() and the test of the globals; attach_ok: AttachCurrentThread
\* succeeds
\* getJNIEnv(): nullptr without g_jvm, the environment of a thread that is
\* attached, and for a detached thread AttachCurrentThread, after which the
\* thread stays attached; nothing in getJNIEnv or its callers detaches it
GetJNIEnv(jvm, attached, attach_ok) ==
    [env |-> jvm /\ (attached \/ attach_ok),
     attached |-> attached \/ (jvm /\ attach_ok)]

AdapterEnter(name, attach_ok) ==
    /\ Alive
    /\ cbk.pc = "idle"
    /\ \E e \in {GetJNIEnv(g_jvm, cbk.attached, attach_ok)} :
          cbk' = IF AdapterReady(e.env, g_platform_adapter, g_method[name])
                 THEN [IdleCallback EXCEPT !.pc = "call", !.fam = "adapter",
                                           !.name = name,
                                           !.obj = g_platform_adapter,
                                           !.mid = g_method[name],
                                           !.noObject = g_platform_adapter = 0,
                                           !.attached = e.attached]
                 ELSE [IdleCallback EXCEPT !.fam = "adapter", !.name = name,
                                           !.rc = AdapterFallback(name),
                                           !.noObject = g_platform_adapter = 0,
                                           !.attached = e.attached]
    /\ UNCHANGED <<g_jvm, g_platform_adapter, g_method, g_adapter_mutex,
                   g_device_jni_state, g_model_assignment_state, grefs, inst>>
    /\ UNCHANGED notBridgeVars

\* a call through object obj with method id mid that the runtime cannot
\* carry out as a call of that method on that object
BadCall(obj, mid) == ~Live(obj) \/ obj # mid

\* env->Call<T>Method(g_platform_adapter, g_method_x, ...): the two globals
\* are read without a lock, so the call uses the values the test saw or the
\* values stored since (reload); a call through a released or null reference
\* brings the process down or goes through
AdapterInvoke(reload, crash) ==
    /\ Alive
    /\ cbk.pc = "call" /\ cbk.fam = "adapter"
    /\ \E obj \in {IF reload THEN g_platform_adapter ELSE cbk.obj},
          mid \in {IF reload THEN g_method[cbk.name] ELSE cbk.mid} :
          /\ crash => BadCall(obj, mid)
          /\ cbk' = [cbk EXCEPT !.pc = IF crash THEN "crashed" ELSE "incall",
                                !.obj = obj, !.mid = mid,
                                !.calls = @ + 1,
                                !.viaReleased = ~Live(obj),
                                !.mixed = obj # mid]
    /\ UNCHANGED <<g_jvm, g_platform_adapter, g_method, g_adapter_mutex,
                   g_device_jni_state, g_model_assignment_state, grefs, inst>>
    /\ UNCHANGED notBridgeVars

\* the managed method returns or throws; the adapter callbacks do not look
\* for an exception
AdapterReturn(ret) ==
    /\ Alive
    /\ cbk.pc = "incall" /\ cbk.fam = "adapter"
    /\ cbk' = [cbk EXCEPT !.pc = "idle", !.rc = AdapterResult(cbk.name, ret),
                          !.threw = ret = "throw", !.pend = ret = "throw"]
    /\ UNCHANGED <<g_jvm, g_platform_adapter, g_method, g_adapter_mutex,
                   g_device_jni_state, g_model_assignment_state, grefs, inst>>
    /\ UNCHANGED notBridgeVars

(***************************************************************************)
(* racDeviceManagerSetCallbacks(callbacks) on the managed thread.          *)
(***************************************************************************)
\* std::lock_guard<std::mutex> lock(g_device_jni_state.mtx)
DeviceSetLock(callbacks) ==
    /\ Alive /\ g_jvm
    /\ inst.pc = "idle"
    /\ callbacks # 0 => Len(grefs) < MaxInstalls
    /\ g_device_jni_state.mtx = "free"
    /\ g_device_jni_state' = [g_device_jni_state EXCEPT !.mtx = "inst"]
    /\ inst' = [IdleInstaller EXCEPT
                   !.pc = IF g_device_jni_state.callback_obj # 0
                          THEN "d_clean" ELSE "d_check",
                   !.what = "device", !.arg = callbacks,
                   !.prev = g_device_jni_state.callback_obj]
    /\ UNCHANGED <<g_jvm, g_platform_adapter, g_method, g_adapter_mutex,
                   g_model_assignment_state, grefs, cbk>>
    /\ UNCHANGED notBridgeVars

\* env->DeleteGlobalRef(g_device_jni_state.callback_obj)
DeviceSetRelease ==
    /\ Alive
    /\ inst.pc = "d_clean"
    /\ grefs' = DeleteGlobalRef(grefs, g_device_jni_state.callback_obj)
    /\ inst' = [inst EXCEPT !.pc = "d_null"]
    /\ UNCHANGED <<g_jvm, g_platform_adapter, g_method, g_adapter_mutex,
                   g_device_jni_state, g_model_assignment_state, cbk>>
    /\ UNCHANGED notBridgeVars

\* g_device_jni_state.callback_obj = nullptr
DeviceSetNull ==
    /\ Alive
    /\ inst.pc = "d_null"
    /\ g_device_jni_state' = [g_device_jni_state EXCEPT !.callback_obj = 0]
    /\ inst' = [inst EXCEPT !.pc = "d_check"]
    /\ UNCHANGED <<g_jvm, g_platform_adapter, g_method, g_adapter_mutex,
                   g_model_assignment_state, grefs, cbk>>
    /\ UNCHANGED notBridgeVars

\* if (callbacks == nullptr) return RAC_ERROR_INVALID_ARGUMENT
DeviceSetRejectNull ==
    /\ Alive
    /\ inst.pc = "d_check"
    /\ inst.arg = 0
    /\ g_device_jni_state' = [g_device_jni_state EXCEPT !.mtx = "free"]
    /\ inst' = [inst EXCEPT !.pc = "idle", !.rc = RAC_ERROR_INVALID_ARGUMENT]
    /\ UNCHANGED <<g_jvm, g_platform_adapter, g_method, g_adapter_mutex,
                   g_model_assignment_state, grefs, cbk>>
    /\ UNCHANGED notBridgeVars

\* g_device_jni_state.callback_obj = env->NewGlobalRef(callbacks)
DeviceSetNewRef ==
    /\ Alive
    /\ inst.pc = "d_check"
    /\ inst.arg # 0
    /\ grefs' = NewGlobalRef(grefs, inst.arg)
    /\ g_device_jni_state' = [g_device_jni_state EXCEPT !.callback_obj = NextRef]
    /\ inst' = [inst EXCEPT !.pc = "d_ids"]
    /\ UNCHANGED <<g_jvm, g_platform_adapter, g_method, g_adapter_mutex,
                   g_model_assignment_state, cbk>>
    /\ UNCHANGED notBridgeVars

\* the five GetMethodID calls
DeviceSetResolve ==
    /\ Alive
    /\ inst.pc = "d_ids"
    /\ g_device_jni_state' =
          [g_device_jni_state EXCEPT
              !.method = ResolveAll(DeviceMethods, inst.arg,
                                    g_device_jni_state.callback_obj)]
    /\ inst' = [inst EXCEPT !.pc = "d_verify",
                            !.pend = ResolveThrows(DeviceMethods, inst.arg)]
    /\ UNCHANGED <<g_jvm, g_platform_adapter, g_method, g_adapter_mutex,
                   g_model_assignment_state, grefs, cbk>>
    /\ UNCHANGED notBridgeVars

\* the test of the method ids; when it fails the reference is deleted and
\* the install returns RAC_ERROR_INVALID_ARGUMENT, else the install returns
\* what rac_device_manager_set_callbacks returns (native_rc)
DeviceSetVerify(native_rc) ==
    /\ Alive
    /\ inst.pc = "d_verify"
    /\ IF \E m \in DeviceVerified : g_device_jni_state.method[m] = 0
       THEN /\ grefs' = DeleteGlobalRef(grefs, g_device_jni_state.callback_obj)
            /\ g_device_jni_state' = [g_device_jni_state EXCEPT !.callback_obj = 0,
                                                                !.mtx = "free"]
            /\ inst' = [inst EXCEPT !.pc = "idle", !.rc = RAC_ERROR_INVALID_ARGUMENT]
       ELSE /\ grefs' = grefs
            /\ g_device_jni_state' = [g_device_jni_state EXCEPT !.mtx = "free"]
            /\ inst' = [inst EXCEPT !.pc = "idle", !.rc = native_rc]
    /\ UNCHANGED <<g_jvm, g_platform_adapter, g_method, g_adapter_mutex,
                   g_model_assignment_state, cbk>>
    /\ UNCHANGED notBridgeVars

(***************************************************************************)
(* The device manager's C callbacks on the native thread.                  *)
(***************************************************************************)
\* what a callback returns when its test of env, callback_obj and its method
\* id fails
DeviceNotReady(name) ==
    IF name = "is_registered" THEN RAC_FALSE
    ELSE IF name = "get_device_id" THEN ""
    ELSE IF name = "http_post" THEN RAC_ERROR_ADAPTER_NOT_SET
    ELSE "void"

\* the result of http_post as it would be with status 300 counted as success
HttpPostResultThrough300(status) ==
    IF status >= 200 /\ status <= 300 THEN RAC_SUCCESS ELSE RAC_ERROR_NETWORK_ERROR

\* (statusCode >= 200 && statusCode < 300) ? RAC_SUCCESS : RAC_ERROR_NETWORK_ERROR
HttpPostResult(status) ==
    IF status >= 200 /\ status < 300 THEN RAC_SUCCESS ELSE RAC_ERROR_NETWORK_ERROR

\* what the managed method of a callback can do: throw, or return a value
DeviceOutcomes(name) ==
    {[threw |-> TRUE, val |-> "none", status |-> 0]}
    \cup (IF name = "http_post"
          THEN {[threw |-> FALSE, val |-> "int", status |-> s] : s \in StatusCodes}
          ELSE IF name \in {"get_device_info", "get_device_id"}
          THEN {[threw |-> FALSE, val |-> v, status |-> 0] : v \in {"string", "null"}}
          ELSE IF name = "is_registered"
          THEN {[threw |-> FALSE, val |-> v, status |-> 0] : v \in {"true", "false"}}
          ELSE {[threw |-> FALSE, val |-> "void", status |-> 0]})

\* the callbacks that test ExceptionCheck() after their managed call and
\* call ExceptionClear()
DeviceClearsException ==
    {"get_device_info", "get_device_id", "is_registered", "set_registered", "http_post"}

\* the value a callback returns after its managed call
DeviceResult(name, o) ==
    IF name = "http_post"
    THEN (IF o.threw THEN RAC_ERROR_NETWORK_ERROR ELSE HttpPostResult(o.status))
    ELSE IF name = "is_registered"
    THEN (IF ~o.threw /\ o.val = "true" THEN RAC_TRUE ELSE RAC_FALSE)
    ELSE IF name = "get_device_id"
    THEN (IF ~o.threw /\ o.val = "string" THEN "device-id" ELSE "")
    ELSE "void"

\* out_response->status_code of http_post
DeviceStatus(name, o) ==
    IF name # "http_post" THEN 0 ELSE IF o.threw THEN -1 ELSE o.status

\* getJNIEnv() and the test of the globals
DeviceEnter(name, attach_ok) ==
    /\ Alive
    /\ cbk.pc = "idle"
    /\ \E e \in {GetJNIEnv(g_jvm, cbk.attached, attach_ok)} :
          cbk' = IF e.env /\ g_device_jni_state.callback_obj # 0
                    /\ g_device_jni_state.method[name] # 0
                 THEN [IdleCallback EXCEPT !.pc = "call", !.fam = "device",
                                           !.name = name,
                                           !.obj = g_device_jni_state.callback_obj,
                                           !.mid = g_device_jni_state.method[name],
                                           !.attached = e.attached]
                 ELSE [IdleCallback EXCEPT !.fam = "device", !.name = name,
                                           !.rc = DeviceNotReady(name),
                                           !.status = IF name = "http_post" THEN -1 ELSE 0,
                                           !.noObject = TRUE,
                                           !.attached = e.attached]
    /\ UNCHANGED <<g_jvm, g_platform_adapter, g_method, g_adapter_mutex,
                   g_device_jni_state, g_model_assignment_state, grefs, inst>>
    /\ UNCHANGED notBridgeVars

\* http_post: NewStringUTF fails for the endpoint or the body; the exception
\* is cleared and the callback returns RAC_ERROR_OUT_OF_MEMORY
DeviceStringsFail ==
    /\ Alive
    /\ cbk.pc = "call" /\ cbk.fam = "device" /\ cbk.name = "http_post"
    /\ cbk' = [cbk EXCEPT !.pc = "idle", !.rc = RAC_ERROR_OUT_OF_MEMORY,
                          !.status = -1, !.pend = FALSE]
    /\ UNCHANGED <<g_jvm, g_platform_adapter, g_method, g_adapter_mutex,
                   g_device_jni_state, g_model_assignment_state, grefs, inst>>
    /\ UNCHANGED notBridgeVars

\* env->Call<T>Method(g_device_jni_state.callback_obj, g_device_jni_state.x_method):
\* read without a lock, as in the adapter's callbacks
DeviceInvoke(reload, crash) ==
    /\ Alive
    /\ cbk.pc = "call" /\ cbk.fam = "device"
    /\ \E obj \in {IF reload THEN g_device_jni_state.callback_obj ELSE cbk.obj},
          mid \in {IF reload THEN g_device_jni_state.method[cbk.name] ELSE cbk.mid} :
          /\ crash => BadCall(obj, mid)
          /\ cbk' = [cbk EXCEPT !.pc = IF crash THEN "crashed" ELSE "incall",
                                !.obj = obj, !.mid = mid,
                                !.calls = @ + 1,
                                !.viaReleased = ~Live(obj),
                                !.mixed = obj # mid]
    /\ UNCHANGED <<g_jvm, g_platform_adapter, g_method, g_adapter_mutex,
                   g_device_jni_state, g_model_assignment_state, grefs, inst>>
    /\ UNCHANGED notBridgeVars

\* the managed method returns or throws: ExceptionCheck, ExceptionClear, and
\* the callback's return; get_device_id stores a string it got under
\* g_device_jni_state.mtx
DeviceReturn(o) ==
    /\ Alive
    /\ cbk.pc = "incall" /\ cbk.fam = "device"
    /\ o \in DeviceOutcomes(cbk.name)
    /\ (cbk.name = "get_device_id" /\ ~o.threw /\ o.val = "string")
          => g_device_jni_state.mtx = "free"
    /\ cbk' = [cbk EXCEPT !.pc = "idle",
                          !.rc = DeviceResult(cbk.name, o),
                          !.status = DeviceStatus(cbk.name, o),
                          !.threw = o.threw,
                          !.pend = o.threw /\ cbk.name \notin DeviceClearsException]
    /\ UNCHANGED <<g_jvm, g_platform_adapter, g_method, g_adapter_mutex,
                   g_device_jni_state, g_model_assignment_state, grefs, inst>>
    /\ UNCHANGED notBridgeVars

(***************************************************************************)
(* The model-assignment callback.  The install and the callback both hold  *)
(* g_model_assignment_state.mutex from their first statement on.           *)
(***************************************************************************)
\* std::mutex as it would be in place of the recursive one: a thread that
\* holds it cannot lock it again
CanLockPlain(m, t) == m = "free"

\* std::recursive_mutex: thread t can lock it when no thread holds it or t
\* holds it itself
CanLock(m, t) == m = "free" \/ m = t

\* the state after "Clear previous callback if any"
AssignmentCleared(st) == [st EXCEPT !.callback_obj = 0]

\* racModelAssignmentSetCallbacks(callback, autoFetch) up to the call of
\* rac_model_assignment_set_callbacks, during which the native library may
\* fetch through the callback on this thread
AssignmentSet(callback, autoFetch) ==
    /\ Alive /\ g_jvm
    /\ inst.pc = "idle"
    /\ callback # 0 => Len(grefs) < MaxInstalls
    /\ CanLock(g_model_assignment_state.mutex, "inst")
    /\ IF callback = 0
       THEN /\ grefs' = DeleteGlobalRef(grefs, g_model_assignment_state.callback_obj)
            /\ g_model_assignment_state' =
                  [AssignmentCleared(g_model_assignment_state) EXCEPT
                      !.callbacks_registered = FALSE]
            /\ inst' = [IdleInstaller EXCEPT
                           !.what = "assignment",
                           !.prev = g_model_assignment_state.callback_obj]
       ELSE IF ~Resolves(callback, "http_get")
       THEN /\ grefs' = DeleteGlobalRef(
                           NewGlobalRef(
                              DeleteGlobalRef(grefs,
                                              g_model_assignment_state.callback_obj),
                              callback),
                           NextRef)
            /\ g_model_assignment_state' =
                  [AssignmentCleared(g_model_assignment_state) EXCEPT
                      !.jvm = TRUE, !.http_get_method = 0]
            /\ inst' = [IdleInstaller EXCEPT
                           !.what = "assignment", !.arg = callback,
                           !.prev = g_model_assignment_state.callback_obj,
                           !.rc = RAC_ERROR_INVALID_ARGUMENT, !.pend = TRUE]
       ELSE /\ grefs' = NewGlobalRef(
                           DeleteGlobalRef(grefs,
                                           g_model_assignment_state.callback_obj),
                           callback)
            /\ g_model_assignment_state' =
                  [g_model_assignment_state EXCEPT
                      !.jvm = TRUE, !.callback_obj = NextRef,
                      !.http_get_method = NextRef, !.mutex = "inst",
                      !.locks = 1]
            /\ inst' = [IdleInstaller EXCEPT
                           !.pc = "m_native", !.what = "assignment",
                           !.arg = callback, !.auto = autoFetch,
                           !.prev = g_model_assignment_state.callback_obj]
    /\ UNCHANGED <<g_jvm, g_platform_adapter, g_method, g_adapter_mutex,
                   g_device_jni_state, cbk>>
    /\ UNCHANGED notBridgeVars

\* rac_model_assignment_set_callbacks returns native_rc; on a failure the
\* reference is deleted
AssignmentSetFinish(native_rc) ==
    /\ Alive
    /\ inst.pc = "m_native"
    /\ IF native_rc = RAC_SUCCESS
       THEN /\ grefs' = grefs
            /\ g_model_assignment_state' =
                  [g_model_assignment_state EXCEPT
                      !.callbacks_registered = TRUE, !.mutex = "free",
                      !.locks = 0]
       ELSE /\ grefs' = DeleteGlobalRef(grefs, g_model_assignment_state.callback_obj)
            /\ g_model_assignment_state' =
                  [g_model_assignment_state EXCEPT
                      !.callback_obj = 0, !.mutex = "free", !.locks = 0]
    /\ inst' = [inst EXCEPT !.pc = "idle", !.rc = native_rc]
    /\ UNCHANGED <<g_jvm, g_platform_adapter, g_method, g_adapter_mutex,
                   g_device_jni_state, cbk>>
    /\ UNCHANGED notBridgeVars

\* model_assignment_http_get_callback on the native thread, outside an
\* install: it takes the mutex, tests the state, attaches the thread, and
\* calls httpGet with the mutex held
AssignmentEnter(attach_ok) ==
    /\ Alive
    /\ cbk.pc = "idle"
    /\ CanLock(g_model_assignment_state.mutex, "cb")
    /\ IF g_model_assignment_state.jvm /\ g_model_assignment_state.callback_obj # 0
          /\ (cbk.attached \/ attach_ok)
       THEN /\ g_model_assignment_state' =
                  [g_model_assignment_state EXCEPT !.mutex = "cb", !.locks = 1]
            /\ cbk' = [IdleCallback EXCEPT
                          !.pc = "incall", !.fam = "assignment", !.name = "http_get",
                          !.obj = g_model_assignment_state.callback_obj,
                          !.mid = g_model_assignment_state.http_get_method,
                          !.calls = 1,
                          !.viaReleased = ~Live(g_model_assignment_state.callback_obj),
                          !.attached = TRUE, !.did_attach = ~cbk.attached]
       ELSE /\ g_model_assignment_state' = g_model_assignment_state
            /\ cbk' = [IdleCallback EXCEPT
                          !.fam = "assignment", !.name = "http_get",
                          !.rc = RAC_ERROR_INVALID_STATE,
                          !.noObject = g_model_assignment_state.callback_obj = 0,
                          !.attached = cbk.attached]
    /\ UNCHANGED <<g_jvm, g_platform_adapter, g_method, g_adapter_mutex,
                   g_device_jni_state, grefs, inst>>
    /\ UNCHANGED notBridgeVars

\* C strings as sequences of characters
ErrorPrefix == <<"E", "R", "R", "O", "R", ":">>

\* the strings httpGet returns here
HttpGetStrings ==
    {<<>>,
     <<"o", "k">>,
     <<"E", "R", "R", "O", "R">>,
     ErrorPrefix,
     ErrorPrefix \o <<"n", "o">>,
     <<"e", "r", "r", "o", "r", ":", "n", "o">>,
     <<" ">> \o ErrorPrefix \o <<"n", "o">>}

\* what httpGet can do: throw, return null, return a string
AssignmentOutcomes ==
    {[kind |-> "throw", str |-> <<>>], [kind |-> "null", str |-> <<>>]}
    \cup {[kind |-> "string", str |-> v] : v \in HttpGetStrings}

\* the i-th char of a C string, the terminating NUL behind its last one
CharAt(str, i) == IF i <= Len(str) THEN str[i] ELSE "NUL"

\* strncmp(a, b, n) == 0
StrNCmpEqual(a, b, n) == \A i \in 1..n : CharAt(a, i) = CharAt(b, i)

\* str + n, for n within the string
StrFrom(str, n) == SubSeq(str, n + 1, Len(str))

\* rac_assignment_http_response_t as the caller passed it: no field written
BlankResponse ==
    [null |-> FALSE, result |-> None, status_code |-> None, response_body |-> None,
     response_length |-> None, error_message |-> None]

\* out_response == nullptr
NullResponse == [BlankResponse EXCEPT !.null = TRUE]

\* if (out_response) out_response->result = rc
SetResult(resp, rc) == IF resp.null THEN resp ELSE [resp EXCEPT !.result = Some(rc)]

\* the branch taken when jResponse is not null: response_str is null when
\* GetStringUTFChars failed
AssignmentString(str, resp, utf_ok) ==
    IF utf_ok /\ ~resp.null
    THEN IF StrNCmpEqual(str, ErrorPrefix, kErrorPrefixLen)
         THEN [rc |-> RAC_ERROR_HTTP_REQUEST_FAILED,
               out |-> [resp EXCEPT !.result = Some(RAC_ERROR_HTTP_REQUEST_FAILED),
                                    !.error_message = Some(StrFrom(str, kErrorPrefixLen))]]
         ELSE [rc |-> RAC_SUCCESS,
               out |-> [resp EXCEPT !.result = Some(RAC_SUCCESS),
                                    !.status_code = Some(200),
                                    !.response_body = Some(str),
                                    !.response_length = Some(Len(str))]]
    ELSE [rc |-> RAC_SUCCESS, out |-> resp]

\* model_assignment_http_get_callback after CallObjectMethod: the value it
\* returns and out_response as it leaves it
AssignmentResponse(ret, resp, utf_ok) ==
    IF ret.kind \in {"throw", "null"}
    THEN [rc |-> RAC_ERROR_HTTP_REQUEST_FAILED,
          out |-> SetResult(resp, RAC_ERROR_HTTP_REQUEST_FAILED)]
    ELSE AssignmentString(ret.str, resp, utf_ok)

\* out_response as the native caller passes it: a record, or a null pointer
OutResponses == {BlankResponse, NullResponse}

\* if (did_attach) jvm->DetachCurrentThread(), on the exception path and at
\* the end of the callback
DetachIf(did_attach, attached) == IF did_attach THEN FALSE ELSE attached

\* httpGet returns or throws; the exception is cleared, the result is set,
\* the thread is detached if the callback attached it, and the lock_guard
\* goes out of scope
AssignmentReturn(ret, resp, utf_ok) ==
    /\ Alive
    /\ cbk.pc = "incall" /\ cbk.fam = "assignment"
    /\ g_model_assignment_state' =
          [g_model_assignment_state EXCEPT !.mutex = "free", !.locks = 0]
    /\ \E r \in {AssignmentResponse(ret, resp, utf_ok)} :
          cbk' = [cbk EXCEPT !.pc = "idle", !.rc = r.rc, !.out = r.out,
                             !.ret = ret, !.threw = ret.kind = "throw",
                             !.attached = DetachIf(cbk.did_attach, @),
                             !.did_attach = FALSE]
    /\ UNCHANGED <<g_jvm, g_platform_adapter, g_method, g_adapter_mutex,
                   g_device_jni_state, grefs, inst>>
    /\ UNCHANGED notBridgeVars

\* rac_model_assignment_set_callbacks with auto_fetch fetches: it calls
\* model_assignment_http_get_callback on the install's thread, which locks
\* the mutex again, tests the state, finds the thread attached and calls
\* httpGet
AssignmentFetchEnter ==
    /\ Alive
    /\ inst.pc = "m_native" /\ inst.auto /\ ~inst.fetched
    /\ CanLock(g_model_assignment_state.mutex, "inst")
    /\ IF g_model_assignment_state.jvm /\ g_model_assignment_state.callback_obj # 0
       THEN /\ g_model_assignment_state' =
                  [g_model_assignment_state EXCEPT !.mutex = "inst", !.locks = @ + 1]
            /\ inst' = [inst EXCEPT !.pc = "m_incall", !.fetched = TRUE,
                                    !.obj = g_model_assignment_state.callback_obj]
       ELSE /\ g_model_assignment_state' = g_model_assignment_state
            /\ inst' = [inst EXCEPT !.fetched = TRUE,
                                    !.fetch_rc = RAC_ERROR_INVALID_STATE]
    /\ UNCHANGED <<g_jvm, g_platform_adapter, g_method, g_adapter_mutex,
                   g_device_jni_state, grefs, cbk>>
    /\ UNCHANGED notBridgeVars

\* httpGet returns or throws inside the install; the callback's lock_guard
\* goes out of scope and the install's remains
AssignmentFetchReturn(ret, resp, utf_ok) ==
    /\ Alive
    /\ inst.pc = "m_incall"
    /\ g_model_assignment_state' =
          [g_model_assignment_state EXCEPT !.locks = @ - 1]
    /\ inst' = [inst EXCEPT !.pc = "m_native",
                            !.fetch_rc = AssignmentResponse(ret, resp, utf_ok).rc]
    /\ UNCHANGED <<g_jvm, g_platform_adapter, g_method, g_adapter_mutex,
                   g_device_jni_state, grefs, cbk>>
    /\ UNCHANGED notBridgeVars

\* what the native set_callbacks functions can return
NativeResults == {RAC_SUCCESS, RAC_ERROR_INVALID_STATE}

\* racSetPlatformAdapter and JNI_OnUnload
AdapterInstallNext ==
    \/ \E a \in {0} \cup Classes : SetAdapterLock(a)
    \/ SetAdapterRelease
    \/ SetAdapterNull
    \/ SetAdapterRejectNull
    \/ SetAdapterNewRef
    \/ SetAdapterResolve
    \/ OnUnloadLock
    \/ \E env_ok \in BOOLEAN : OnUnloadRelease(env_ok)
    \/ OnUnloadNull
    \/ OnUnloadFinish

\* racDeviceManagerSetCallbacks
DeviceInstallNext ==
    \/ \E c \in {0} \cup Classes : DeviceSetLock(c)
    \/ DeviceSetRelease
    \/ DeviceSetNull
    \/ DeviceSetRejectNull
    \/ DeviceSetNewRef
    \/ DeviceSetResolve
    \/ \E rc \in NativeResults : DeviceSetVerify(rc)

\* racModelAssignmentSetCallbacks
AssignmentInstallNext ==
    \/ \E c \in {0} \cup Classes, autoFetch \in BOOLEAN : AssignmentSet(c, autoFetch)
    \/ \E rc \in NativeResults : AssignmentSetFinish(rc)
    \/ AssignmentFetchEnter
    \/ \E ret \in AssignmentOutcomes, resp \in OutResponses, utf_ok \in BOOLEAN :
          AssignmentFetchReturn(ret, resp, utf_ok)

AdapterCallbackNext ==
    \/ \E n \in AdapterMethods, attach_ok \in BOOLEAN : AdapterEnter(n, attach_ok)
    \/ \E reload, crash \in BOOLEAN : AdapterInvoke(reload, crash)
    \/ \E ret \in {"true", "false", "throw"} : AdapterReturn(ret)

DeviceCallbackNext ==
    \/ \E n \in DeviceMethods, attach_ok \in BOOLEAN : DeviceEnter(n, attach_ok)
    \/ DeviceStringsFail
    \/ \E reload, crash \in BOOLEAN : DeviceInvoke(reload, crash)
    \/ \E o \in UNION {DeviceOutcomes(n) : n \in DeviceMethods} : DeviceReturn(o)

AssignmentCallbackNext ==
    \/ \E attach_ok \in BOOLEAN : AssignmentEnter(attach_ok)
    \/ \E ret \in AssignmentOutcomes, resp \in OutResponses, utf_ok \in BOOLEAN :
          AssignmentReturn(ret, resp, utf_ok)

\* the managed thread's installs, one after another, no callback running
InstallNext == AdapterInstallNext \/ DeviceInstallNext \/ AssignmentInstallNext

InstallSpec == Init /\ [][InstallNext]_vars

\* the platform adapter: its installs and JNI_OnUnload on the managed thread,
\* its callbacks on the native thread
AdapterNext == AdapterInstallNext \/ AdapterCallbackNext

AdapterSpec == Init /\ [][AdapterNext]_vars

\* the device manager's and the model assignment's callback objects: their
\* installs on the managed thread, their callbacks on the native thread
CallbackNext ==
    \/ DeviceInstallNext
    \/ DeviceCallbackNext
    \/ AssignmentInstallNext
    \/ AssignmentCallbackNext

CallbackSpec == Init /\ [][CallbackNext]_vars

(***************************************************************************)
(* Properties of the bridge's callback objects.                            *)
(***************************************************************************)
\* C14: while no platform adapter is installed, file_read, file_write,
\* file_delete, secure_get, secure_set and secure_delete return
\* adapter-not-set and make no call into the managed runtime, now_ms returns
\* the system clock, and log falls back to the native logger.
C14_NoAdapterFallback ==
    (cbk.fam = "adapter" /\ cbk.noObject) =>
        /\ cbk.pc = "idle"
        /\ cbk.calls = 0
        /\ cbk.name \in FileSecureMethods => cbk.rc = RAC_ERROR_ADAPTER_NOT_SET
        /\ cbk.name = "now_ms" => cbk.rc = SystemClock
        /\ cbk.name = "log" => cbk.rc = NativeLog

\* file_read is called after racSetPlatformAdapter(null) has taken the
\* adapter away: the method ids of the earlier install are still stored
C14_Witness ==
    /\ cbk.fam = "adapter" /\ cbk.noObject /\ cbk.name = "file_read"
    /\ cbk.pc = "idle" /\ cbk.rc = RAC_ERROR_ADAPTER_NOT_SET
    /\ g_jvm /\ g_method["file_read"] # 0

\* C15: racSetPlatformAdapter succeeds only if all nine methods resolve on
\* the managed object; if one does not, the install fails with
\* invalid-argument.
C15_InstallNeedsAllNine ==
    (inst.what = "adapter" /\ inst.pc = "idle" /\ inst.arg # 0) =>
        /\ inst.rc = RAC_SUCCESS => \A m \in AdapterMethods : Resolves(inst.arg, m)
        /\ (\E m \in AdapterMethods : ~Resolves(inst.arg, m))
              => inst.rc = RAC_ERROR_INVALID_ARGUMENT

\* C16: racSetPlatformAdapter(null) and racDeviceManagerSetCallbacks(null)
\* return invalid-argument and leave the object installed before the call
\* installed and usable.
C16_RejectedInstallKeepsObject ==
    /\ (inst.what = "adapter" /\ inst.pc = "idle" /\ inst.arg = 0) =>
          /\ inst.rc = RAC_ERROR_INVALID_ARGUMENT
          /\ g_platform_adapter = inst.prev
          /\ inst.prev # 0 => Live(inst.prev)
    /\ (inst.what = "device" /\ inst.pc = "idle" /\ inst.arg = 0) =>
          /\ inst.rc = RAC_ERROR_INVALID_ARGUMENT
          /\ g_device_jni_state.callback_obj = inst.prev
          /\ inst.prev # 0 => Live(inst.prev)

\* C17: under any interleaving of the adapter's callbacks with
\* racSetPlatformAdapter or JNI_OnUnload, no callback calls a managed method
\* through a reference that has been released, and none pairs the object of
\* one install with a method id of another.
C17_CallbackUsesInstalledPair ==
    (cbk.fam = "adapter" /\ cbk.calls > 0) => (~cbk.viaReleased /\ ~cbk.mixed)

\* C18: no mutex of the bridge is held by a thread whose call into the
\* managed runtime is in progress, except during an install.
C18_NoLockAcrossManagedCall ==
    cbk.pc = "incall" => LocksHeldBy("cb") = {}

\* C19: if one of getDeviceInfo, getDeviceId, isRegistered, setRegistered,
\* httpPost does not resolve, racDeviceManagerSetCallbacks fails with
\* invalid-argument and no callback object remains installed.
C19_DeviceInstallVerifiesAll ==
    (inst.what = "device" /\ inst.pc = "idle" /\ inst.arg # 0
       /\ \E m \in DeviceMethods : ~Resolves(inst.arg, m)) =>
        /\ inst.rc = RAC_ERROR_INVALID_ARGUMENT
        /\ g_device_jni_state.callback_obj = 0

ManagedStrings(fn) ==
    {[threw |-> TRUE, null |-> FALSE, json |-> TRUE, str |-> <<>>],
     [threw |-> FALSE, null |-> TRUE, json |-> TRUE, str |-> <<>>]}
    \cup {[threw |-> FALSE, null |-> FALSE, json |-> TRUE, str |-> v] :
            v \in DeviceStrings}
    \cup (IF fn = "get_device_info"
          THEN {[threw |-> FALSE, null |-> FALSE, json |-> FALSE, str |-> <<>>]}
          ELSE {})

\* what the callback leaves with the native operation when it returns before
\* it stores a string: get_device_id returns "", get_device_info leaves
\* out_info as it was
EarlyPtr(fn) == IF fn = "get_device_id" THEN LiteralPtr ELSE NullPtr

\* a native operation calls the callback: getJNIEnv(), the test of the
\* globals, the managed call, ExceptionCheck, GetStringUTFChars
DevStrCall(t, fn, ready, o) ==
    /\ dcalls < MaxDeviceCalls
    /\ dev[t].pc = "idle"
    /\ dcalls' = dcalls + 1
    /\ dev' = [dev EXCEPT ![t] =
                 IF ~ready \/ o.threw \/ o.null
                 THEN [IdleNative EXCEPT !.pc = "using", !.fn = fn,
                                         !.ptr = EarlyPtr(fn)]
                 ELSE [IdleNative EXCEPT !.pc = "utf", !.fn = fn, !.str = o.str,
                                         !.bad = ~o.json]]
    /\ UNCHANGED <<g_cached_device_id, g_device_info_strings, dbuf>>
    /\ UNCHANGED notDevVars

\* std::lock_guard lock(g_device_jni_state.mtx) in get_device_id,
\* std::lock_guard lock(g_device_info_strings.mtx) in get_device_info
DevStrLock(t) ==
    /\ dev[t].pc = "utf"
    /\ IF dev[t].fn = "get_device_id"
       THEN /\ g_device_jni_state.mtx = "free"
            /\ g_device_jni_state' = [g_device_jni_state EXCEPT !.mtx = t]
            /\ UNCHANGED g_device_info_strings
       ELSE /\ g_device_info_strings.mtx = "free"
            /\ g_device_info_strings' = [g_device_info_strings EXCEPT !.mtx = t]
            /\ UNCHANGED g_device_jni_state
    /\ dev' = [dev EXCEPT ![t].pc = "locked"]
    /\ UNCHANGED <<g_cached_device_id, dbuf, dcalls>>
    /\ UNCHANGED <<g_jvm, g_platform_adapter, g_method, g_adapter_mutex,
                   g_model_assignment_state, grefs, inst, cbk>>
    /\ UNCHANGED notBridgeDevVars

\* get_device_id: g_cached_device_id = str; return g_cached_device_id.c_str()
\* and the lock_guard releases the mutex
DevStrStoreId(t) ==
    /\ dev[t].pc = "locked" /\ dev[t].fn = "get_device_id"
    /\ \E s \in {StdAssign(g_cached_device_id, dev[t].str, dbuf + 1)} :
          /\ g_cached_device_id' = s
          /\ dbuf' = IF s.buf = g_cached_device_id.buf THEN dbuf ELSE dbuf + 1
          /\ dev' = [dev EXCEPT ![t].pc = "using",
                                ![t].ptr = StdCStr("g_cached_device_id", s)]
    /\ g_device_jni_state' = [g_device_jni_state EXCEPT !.mtx = "free"]
    /\ UNCHANGED <<g_device_info_strings, dcalls>>
    /\ UNCHANGED <<g_jvm, g_platform_adapter, g_method, g_adapter_mutex,
                   g_model_assignment_state, grefs, inst, cbk>>
    /\ UNCHANGED notBridgeDevVars

\* get_device_info: the fields are assigned unless the parse throws, then
\* out_info->device_model = device_model.empty() ? nullptr : device_model.c_str()
\* and the lock_guard releases the mutex
DevStrStoreInfo(t) ==
    /\ dev[t].pc = "locked" /\ dev[t].fn = "get_device_info"
    /\ \E s \in {IF dev[t].bad THEN g_device_info_strings.device_model
                 ELSE StdAssign(g_device_info_strings.device_model, dev[t].str,
                                dbuf + 1)} :
          /\ g_device_info_strings' = [device_model |-> s, mtx |-> "free"]
          /\ dbuf' = IF s.buf = g_device_info_strings.device_model.buf
                     THEN dbuf ELSE dbuf + 1
          /\ dev' = [dev EXCEPT ![t].pc = "using",
                                ![t].ptr = IF s.val = <<>> THEN NullPtr
                                           ELSE StdCStr("g_device_info_strings.device_model", s)]
    /\ UNCHANGED <<g_cached_device_id, dcalls>>
    /\ UNCHANGED notDevVars

\* the native operation that asked for the string has finished
DevStrFinish(t) ==
    /\ dev[t].pc = "using"
    /\ dev' = [dev EXCEPT ![t] = IdleNative]
    /\ UNCHANGED <<g_cached_device_id, g_device_info_strings, dbuf, dcalls>>
    /\ UNCHANGED notDevVars

DeviceStringNext ==
    \/ \E t \in NativeThreads, fn \in {"get_device_id", "get_device_info"},
          ready \in BOOLEAN :
          \E o \in ManagedStrings(fn) : DevStrCall(t, fn, ready, o)
    \/ \E t \in NativeThreads : DevStrLock(t)
    \/ \E t \in NativeThreads : DevStrStoreId(t)
    \/ \E t \in NativeThreads : DevStrStoreInfo(t)
    \/ \E t \in NativeThreads : DevStrFinish(t)

DeviceStringSpec == Init /\ [][DeviceStringNext]_vars

\* C21: a string pointer that get_device_info or get_device_id has handed to
\* a native operation points at the same unchanged bytes until that operation
\* has finished, also when another thread calls the same callback.
C21_HandedPointerStaysIntact ==
    \A t \in NativeThreads : dev[t].pc = "using" => PtrIntact(dev[t].ptr)

(***************************************************************************)
(* Part VI, actions: the telemetry and analytics entry points on the       *)
(* managed thread, analytics events on a native thread.                    *)
(***************************************************************************)
\* the addresses rac_telemetry_manager_create can return: nullptr, or an
\* address that holds no live manager
CreateResults == {0} \cup {a \in ManagerAddrs : ~managers[a].live}

\* the number the next manager gets
NextManagerId == Cardinality({i \in 1..Len(telemetry) : telemetry[i].fn = "create"}) + 1

\* racTelemetryManagerCreate
TelemetryManagerCreate(a) ==
    /\ tcalls < MaxTelemetryCalls
    /\ \E old \in {g_telemetry_jni_state.manager} :
          /\ a \in (CreateResults \cup {old})
          /\ telemetry' =
                (IF old # 0 THEN Append(telemetry, TelemetryCall("destroy", old))
                 ELSE telemetry)
                \o (IF a # 0 THEN <<[fn |-> "create", id |-> NextManagerId, live |-> TRUE]>>
                    ELSE <<>>)
          /\ managers' = [x \in ManagerAddrs |->
                            IF x = a THEN [live |-> TRUE, id |-> NextManagerId]
                            ELSE IF x = old THEN [managers[x] EXCEPT !.live = FALSE]
                            ELSE managers[x]]
    /\ g_telemetry_jni_state' = [g_telemetry_jni_state EXCEPT !.manager = a]
    /\ tcalls' = tcalls + 1
    /\ UNCHANGED <<g_analytics_telemetry_manager, g_analytics_telemetry_mutex,
                   analytics_callback, emit, route>>
    /\ UNCHANGED notTelemetryVars

\* racTelemetryManagerDestroy(handle)
TelemetryManagerDestroy(handle) ==
    /\ tcalls < MaxTelemetryCalls
    /\ tcalls' = tcalls + 1
    /\ IF handle # 0 /\ handle = g_telemetry_jni_state.manager
       THEN /\ telemetry' = telemetry \o <<TelemetryCall("flush", handle),
                                           TelemetryCall("destroy", handle)>>
            /\ managers' = [managers EXCEPT ![handle].live = FALSE]
            /\ g_telemetry_jni_state' = [manager |-> 0, http_callback_obj |-> FALSE]
       ELSE UNCHANGED <<telemetry, managers, g_telemetry_jni_state>>
    /\ UNCHANGED <<g_analytics_telemetry_manager, g_analytics_telemetry_mutex,
                   analytics_callback, emit, route>>
    /\ UNCHANGED notTelemetryVars

\* racTelemetryManagerSetHttpCallback(handle, callback)
TelemetryManagerSetHttpCallback(handle, callback) ==
    /\ tcalls < MaxTelemetryCalls
    /\ tcalls' = tcalls + 1
    /\ g_telemetry_jni_state' =
          IF handle = 0 THEN g_telemetry_jni_state
          ELSE [g_telemetry_jni_state EXCEPT !.http_callback_obj = callback]
    /\ UNCHANGED <<g_analytics_telemetry_manager, g_analytics_telemetry_mutex,
                   managers, analytics_callback, emit, telemetry, route>>
    /\ UNCHANGED notTelemetryVars

\* g_analytics_telemetry_manager as it would be if the null handle left it alone
AnalyticsManagerKeptOnNull(telemetryHandle, current) ==
    IF telemetryHandle # 0 THEN telemetryHandle ELSE current

\* g_analytics_telemetry_manager after racAnalyticsEventsSetCallback: the
\* handle, or nullptr for the null handle
AnalyticsManagerAfter(telemetryHandle, current) ==
    IF telemetryHandle # 0 THEN telemetryHandle ELSE 0

\* racAnalyticsEventsSetCallback(telemetryHandle); native_ok: the analytics
\* dispatch accepts the registration or removal of the C callback
AnalyticsEventsSetCallback(telemetryHandle, native_ok) ==
    /\ tcalls < MaxTelemetryCalls
    /\ tcalls' = tcalls + 1
    /\ g_analytics_telemetry_mutex = "free"
    /\ g_analytics_telemetry_manager' =
          AnalyticsManagerAfter(telemetryHandle, g_analytics_telemetry_manager)
    /\ analytics_callback' = IF native_ok THEN telemetryHandle # 0 ELSE analytics_callback
    /\ route' = [route EXCEPT !.off = (telemetryHandle = 0),
                              !.valid = IF telemetryHandle = 0 THEN FALSE
                                        ELSE managers[telemetryHandle].live]
    /\ UNCHANGED <<g_telemetry_jni_state, g_analytics_telemetry_mutex, managers,
                   emit, telemetry>>
    /\ UNCHANGED notTelemetryVars

\* an emit entry point dispatches an event: the callback registered with
\* rac_analytics_events_set_callback is called, if there is one
AnalyticsEmit(data) ==
    /\ tcalls < MaxTelemetryCalls
    /\ tcalls' = tcalls + 1
    /\ emit.pc = "idle"
    /\ emit' = IF analytics_callback THEN [pc |-> "called", data |-> data]
               ELSE IdleEmitter
    /\ UNCHANGED <<g_telemetry_jni_state, g_analytics_telemetry_manager,
                   g_analytics_telemetry_mutex, managers, analytics_callback,
                   telemetry, route>>
    /\ UNCHANGED notTelemetryVars

\* jni_analytics_event_callback: std::lock_guard lock(g_analytics_telemetry_mutex)
AnalyticsCallbackLock ==
    /\ emit.pc = "called"
    /\ g_analytics_telemetry_mutex = "free"
    /\ g_analytics_telemetry_mutex' = "emitter"
    /\ emit' = [emit EXCEPT !.pc = "locked"]
    /\ UNCHANGED <<g_telemetry_jni_state, g_analytics_telemetry_manager, managers,
                   analytics_callback, telemetry, route, tcalls>>
    /\ UNCHANGED notTelemetryVars

\* jni_analytics_event_callback: the test, rac_telemetry_manager_track_analytics,
\* and the return that releases the mutex
AnalyticsCallbackRoute ==
    /\ emit.pc = "locked"
    /\ IF g_analytics_telemetry_manager # 0 /\ emit.data
       THEN /\ telemetry' = Append(telemetry,
                                   TelemetryCall("track_analytics",
                                                 g_analytics_telemetry_manager))
            /\ route' = [route EXCEPT
                            !.crossed = @ \/ route.off,
                            !.stale = @ \/ (route.valid /\
                                ~managers[g_analytics_telemetry_manager].live)]
       ELSE /\ telemetry' = telemetry
            /\ route' = [route EXCEPT !.dropped = @ \/ (route.off /\ emit.data)]
    /\ g_analytics_telemetry_mutex' = "free"
    /\ emit' = IdleEmitter
    /\ UNCHANGED <<g_telemetry_jni_state, g_analytics_telemetry_manager, managers,
                   analytics_callback, tcalls>>
    /\ UNCHANGED notTelemetryVars

TelemetryNext ==
    \/ \E a \in 0..MaxManagers : TelemetryManagerCreate(a)
    \/ \E h \in 0..MaxManagers : TelemetryManagerDestroy(h)
    \/ \E h \in 0..MaxManagers, callback \in BOOLEAN :
          TelemetryManagerSetHttpCallback(h, callback)
    \/ \E h \in 0..MaxManagers, native_ok \in BOOLEAN : AnalyticsEventsSetCallback(h, native_ok)
    \/ \E data \in BOOLEAN : AnalyticsEmit(data)
    \/ AnalyticsCallbackLock
    \/ AnalyticsCallbackRoute

TelemetrySpec == Init /\ [][TelemetryNext]_vars

\* C22: every destruction of a telemetry manager by the bridge, in
\* racTelemetryManagerDestroy and in racTelemetryManagerCreate when it
\* replaces a manager, comes after a flush of that same manager.
C22_DestroyFlushesFirst ==
    \A i \in 1..Len(telemetry) :
        telemetry[i].fn = "destroy" =>
            \E j \in 1..(i - 1) :
                telemetry[j].fn = "flush" /\ telemetry[j].id = telemetry[i].id

\* C23: after racAnalyticsEventsSetCallback(0) no analytics event reaches
\* track_analytics of any telemetry manager until a non-null handle is
\* installed again.
C23_NullHandleUnregisters ==
    ~route.crossed

\* the route was switched off while an event was on its way to the callback,
\* and the callback has returned without routing it
C23_Witness ==
    /\ route.off /\ route.dropped
    /\ emit.pc = "idle"
    /\ \E i \in 1..Len(telemetry) : telemetry[i].fn = "track_analytics"

(***************************************************************************)
(* Properties of the model-assignment callback.                            *)
(***************************************************************************)
\* C24: when racModelAssignmentSetCallbacks with auto-fetch is inside the
\* native install and the native library calls the http-get callback on the
\* same thread, the callback can take the mutex the install holds, and its
\* managed call goes through the reference this install has created.
C24_ReentrantFetchProceeds ==
    /\ (inst.what = "assignment" /\ inst.pc = "m_native" /\ inst.auto
          /\ ~inst.fetched) =>
          CanLock(g_model_assignment_state.mutex, "inst")
    /\ inst.pc = "m_incall" =>
          /\ g_model_assignment_state.mutex = "inst"
          /\ g_model_assignment_state.locks = 2
          /\ inst.obj = g_model_assignment_state.callback_obj
          /\ inst.obj # inst.prev
          /\ Live(inst.obj)
          /\ grefs[inst.obj].cls = inst.arg

\* an install with auto-fetch that replaced an earlier object has fetched
\* through the callback and has returned success
C24_Witness ==
    /\ inst.what = "assignment" /\ inst.pc = "idle"
    /\ inst.auto /\ inst.fetched /\ inst.obj # 0 /\ inst.prev # 0
    /\ inst.fetch_rc = RAC_SUCCESS /\ inst.rc = RAC_SUCCESS
    /\ g_model_assignment_state.mutex = "free"

\* the response begins with the six characters ERROR:
HasErrorPrefix(str) ==
    Len(str) >= Len(ErrorPrefix) /\ SubSeq(str, 1, Len(ErrorPrefix)) = ErrorPrefix

\* httpGet threw, returned null, or returned a string that begins with ERROR:
HttpGetFailed(ret) ==
    ret.kind \in {"throw", "null"} \/ (ret.kind = "string" /\ HasErrorPrefix(ret.str))

\* C25: the http-get callback returns http-request-failed exactly when
\* httpGet throws, returns null or returns a string that begins with ERROR:;
\* for such a string the error message is the rest of it; every other
\* string is reported as success with the string as the body.
C25_ErrorPrefixDenotesFailure ==
    (cbk.fam = "assignment" /\ cbk.pc = "idle" /\ cbk.calls > 0) =>
        /\ cbk.rc = RAC_ERROR_HTTP_REQUEST_FAILED <=> HttpGetFailed(cbk.ret)
        /\ ~HttpGetFailed(cbk.ret) => cbk.rc = RAC_SUCCESS
        /\ (cbk.ret.kind = "string" /\ ~cbk.out.null) =>
              IF HasErrorPrefix(cbk.ret.str)
              THEN cbk.out.error_message
                     = Some(SubSeq(cbk.ret.str, Len(ErrorPrefix) + 1, Len(cbk.ret.str)))
              ELSE cbk.out.response_body = Some(cbk.ret.str)

(***************************************************************************)
(* Part VII, actions: the component entry points of the bridge.  handle is *)
(* FALSE for the null handle.                                              *)
(***************************************************************************)
ComponentCall(cap, op, handle, rc) ==
    [cap |-> cap, op |-> op, handle |-> handle, before |-> comp[cap], rc |-> rc]

\* rac<Cap>ComponentLoadModel
ComponentLoadModel(cap, handle, ok) ==
    /\ ccalls < MaxComponentCalls
    /\ ccalls' = ccalls + 1
    /\ comp' = IF handle THEN [comp EXCEPT ![cap] = NativeLoadModel(@, ok)] ELSE comp
    /\ clast' = ComponentCall(cap, "load_model", handle,
                              IF ~handle THEN RAC_ERROR_INVALID_HANDLE
                              ELSE IF comp[cap] = "created" /\ ok THEN RAC_SUCCESS
                              ELSE RAC_ERROR_INVALID_STATE)
    /\ UNCHANGED notComponentVars

\* a verb (generate, transcribe, synthesize, process) enters the component:
\* only loaded accepts it
ComponentVerbBegin(cap) ==
    /\ ccalls < MaxComponentCalls
    /\ ccalls' = ccalls + 1
    /\ comp[cap] # "running"
    /\ comp' = IF comp[cap] = "loaded" THEN [comp EXCEPT ![cap] = "running"] ELSE comp
    /\ clast' = ComponentCall(cap, "verb", TRUE,
                              IF comp[cap] = "loaded" THEN RAC_SUCCESS
                              ELSE RAC_ERROR_INVALID_STATE)
    /\ UNCHANGED notComponentVars

\* the verb returns
ComponentVerbEnd(cap) ==
    /\ comp[cap] = "running"
    /\ comp' = [comp EXCEPT ![cap] = "loaded"]
    /\ UNCHANGED <<clast, ccalls>>
    /\ UNCHANGED notComponentVars

\* rac<Cap>ComponentCancel
ComponentCancel(cap, handle) ==
    /\ ccalls < MaxComponentCalls
    /\ ccalls' = ccalls + 1
    /\ comp' = IF handle THEN [comp EXCEPT ![cap] = NativeCall(CancelCalls(cap), @)]
               ELSE comp
    /\ clast' = ComponentCall(cap, "cancel", handle,
                              IF ~handle /\ cap = "vlm" THEN RAC_ERROR_INVALID_HANDLE
                              ELSE RAC_SUCCESS)
    /\ UNCHANGED notComponentVars

\* rac<Cap>ComponentUnload
ComponentUnload(cap, handle) ==
    /\ ccalls < MaxComponentCalls
    /\ ccalls' = ccalls + 1
    /\ comp' = IF handle THEN [comp EXCEPT ![cap] = NativeUnload(@)] ELSE comp
    /\ clast' = ComponentCall(cap, "unload", handle,
                              IF ~handle /\ cap = "vlm" THEN RAC_ERROR_INVALID_HANDLE
                              ELSE RAC_SUCCESS)
    /\ UNCHANGED notComponentVars

ComponentNext ==
    \/ \E cap \in Capabilities, handle \in BOOLEAN, ok \in BOOLEAN :
          ComponentLoadModel(cap, handle, ok)
    \/ \E cap \in Capabilities : ComponentVerbBegin(cap)
    \/ \E cap \in Capabilities : ComponentVerbEnd(cap)
    \/ \E cap \in Capabilities, handle \in BOOLEAN : ComponentCancel(cap, handle)
    \/ \E cap \in Capabilities, handle \in BOOLEAN : ComponentUnload(cap, handle)

ComponentSpec == Init /\ [][ComponentNext]_vars

\* C26: for every capability with a cancel entry point, STT and TTS
\* included, cancel on a handle whose model is loaded leaves the model
\* loaded, so that a following verb needs no new load.
C26_CancelKeepsModelLoaded ==
    (clast.op = "cancel" /\ clast.handle /\ clast.before \in ModelLoaded) =>
        comp[clast.cap] \in ModelLoaded

(***************************************************************************)
(* Lookup and removal by id, and the registry after a failed call.         *)
(***************************************************************************)
\* C27: on a live registry get(id) and remove(id) return not-found exactly
\* when no entry is stored under id; after a successful remove(id) the id is
\* not stored, so get(id) returns not-found for every id not registered
\* since, and every other entry is still stored and returned with the value
\* it was registered with.
C27_NotFoundExactlyWhenAbsent ==
    /\ (call.op \in {"get", "remove"} /\ ValidCall) =>
          (call.rc = RAC_ERROR_NOT_FOUND <=> ~call.had)
    /\ (call.op = "remove" /\ call.rc = RAC_SUCCESS) =>
          /\ call.key \notin DOMAIN entries
          /\ Cardinality(DOMAIN entries) = call.size - 1
          /\ DOMAIN entries = DOMAIN shadow
          /\ \A k \in DOMAIN entries : StoredValue(k) = shadow[k]
    /\ (call.op = "get" /\ ValidCall /\ call.key \notin DOMAIN shadow) =>
          call.rc = RAC_ERROR_NOT_FOUND
    /\ (call.op = "get" /\ call.rc = RAC_SUCCESS) =>
          /\ call.key \in DOMAIN shadow
          /\ EntryValue(heap, out.entry) = shadow[call.key]

\* remove("l1") succeeded with l1 and l2 stored and l2 is still stored
C27_Witness ==
    /\ call.op = "remove" /\ call.rc = RAC_SUCCESS /\ call.key = "l1"
    /\ call.size = 2
    /\ DOMAIN entries = {"l2"}
    /\ StoredValue("l2") = shadow["l2"]

\* C28: a registry call that returns a code other than success (a null
\* handle, entry, id or output pointer, an id that is not stored, a failed
\* allocation) leaves the map from id to entry as it was before the call:
\* the same ids, each with the value it was registered with.
C28_FailedCallKeepsMapping ==
    (call.op \in RegistryOps /\ call.rc # RAC_SUCCESS) =>
        /\ DOMAIN entries = DOMAIN shadow
        /\ \A k \in DOMAIN entries : StoredValue(k) = shadow[k]
        /\ Cardinality(DOMAIN entries) = call.size
        /\ call.key \in Ids => (call.key \in DOMAIN entries <=> call.had)

\* get_for_model ran out of memory with two adapters stored
C28_Witness ==
    /\ call.op = "get_for_model" /\ call.rc = RAC_ERROR_OUT_OF_MEMORY
    /\ DOMAIN entries = {"l1", "l2"}

(***************************************************************************)
(* Actions of the JSON specification.                                      *)
(***************************************************************************)
\* the escaping loop of racToolCallParse over clean_text
RECURSIVE EscapeCleanText(_)
EscapeCleanText(s) ==
    IF s = <<>> THEN <<>>
    ELSE (CASE Head(s) = "\"" -> <<"\\", "\"">>
            [] Head(s) = "\\" -> <<"\\", "\\">>
            [] Head(s) = "\n" -> <<"\\", "n">>
            [] Head(s) = "\r" -> <<"\\", "r">>
            [] Head(s) = "\t" -> <<"\\", "t">>
            [] OTHER -> <<Head(s)>>) \o EscapeCleanText(Tail(s))

\* std::string::npos, for positions counted from 1
Npos == 0

\* find_first_not_of as it would be if it did not skip: the first position
FirstPosition(s, chars) == IF s = <<>> THEN Npos ELSE 1

\* std::string::find_first_not_of
FindFirstNotOf(s, chars) ==
    IF \A i \in 1..Len(s) : s[i] \in chars
    THEN Npos
    ELSE CHOOSE i \in 1..Len(s) :
            s[i] \notin chars /\ \A j \in 1..(i - 1) : s[j] \in chars

\* what racToolCallParse appends after "argumentsJson":
ArgumentsText(arguments_json) ==
    IF arguments_json # None
    THEN IF \E start \in {FindFirstNotOf(arguments_json[1], {" ", "\t", "\n", "\r"})} :
               start # Npos /\ arguments_json[1][start] \in {"{", "["}
         THEN arguments_json[1]
         ELSE <<"{", "}">>
    ELSE <<"{", "}">>

\* the text racToolCallParse builds from the parser's record
ToolCallJson(parsed) ==
    <<"{", "\"hasToolCall\":", IF parsed.has_tool_call THEN "true" ELSE "false",
      ",\"cleanText\":\"">>
    \o (IF parsed.clean_text # None THEN EscapeCleanText(parsed.clean_text[1])
        ELSE <<>>)
    \o <<"\"">>
    \o (IF parsed.has_tool_call
        THEN <<",\"toolName\":\"">>
             \o (IF parsed.tool_name # None THEN parsed.tool_name[1] ELSE <<>>)
             \o <<"\",\"argumentsJson\":">>
             \o ArgumentsText(parsed.arguments_json)
             \o <<",\"callId\":", ToString(parsed.call_id)>>
        ELSE <<>>)
    \o <<"}">>

\* what racToolCallParse returns: the text, or no return when it reads
\* through a pointer that was never set
ToolCallReturn(parsed) ==
    IF parsed.wild
    THEN [crashed |-> TRUE, text |-> <<>>]
    ELSE [crashed |-> FALSE, text |-> ToolCallJson(parsed)]

RacToolCallParse(parsed) ==
    /\ jcall = NoJsonCall
    /\ jcall' = [fn |-> "racToolCallParse", arg |-> parsed,
                 ret |-> ToolCallReturn(parsed)]
    /\ UNCHANGED notJsonVars

\* values of nlohmann::json
JsonNull == [type |-> "null", value |-> <<>>]
JsonString(s) == [type |-> "string", value |-> s]
JsonNumber(n) == [type |-> "number", value |-> <<n>>]
JsonBoolean(b) == [type |-> "boolean", value |-> <<b>>]
JsonArray(a) == [type |-> "array", value |-> a]

\* p ? p : ""
OrEmpty(p) == JsonString(IF p # None THEN p[1] ELSE <<>>)
\* p ? nlohmann::json(p) : nlohmann::json(nullptr)
OrNull(p) == IF p # None THEN JsonString(p[1]) ELSE JsonNull

\* the strings of a nlohmann::json array of strings, with their commas
RECURSIVE DumpStrings(_)
DumpStrings(a) ==
    IF a = <<>> THEN <<>>
    ELSE <<"\"">> \o a[1].value \o <<"\"">>
         \o (IF Len(a) > 1 THEN <<",">> ELSE <<>>) \o DumpStrings(Tail(a))

\* dump() of one value (the strings of the model need no escape)
DumpValue(v) ==
    CASE v.type = "null" -> <<"null">>
      [] v.type = "string" -> <<"\"">> \o v.value \o <<"\"">>
      [] v.type = "number" -> <<ToString(v.value[1])>>
      [] v.type = "boolean" -> <<IF v.value[1] THEN "true" ELSE "false">>
      [] v.type = "array" -> <<"[">> \o DumpStrings(v.value) \o <<"]">>

\* dump() of an object: the text of each member, by key
Dump(j) == [null |-> FALSE, members |-> [k \in DOMAIN j |-> DumpValue(j[k])]]
\* return "null"
DumpNull == [null |-> TRUE, members |-> <<>>]

ModelInfoToJson(model) ==
    IF model.null THEN DumpNull
    ELSE Dump([model_id |-> OrEmpty(model.id),
               name |-> OrEmpty(model.name),
               category |-> JsonNumber(model.category),
               format |-> JsonNumber(model.format),
               framework |-> JsonNumber(model.framework),
               download_url |-> OrNull(model.download_url),
               local_path |-> OrNull(model.local_path),
               download_size |-> JsonNumber(model.download_size),
               context_length |-> JsonNumber(model.context_length),
               supports_thinking |-> JsonBoolean(model.supports_thinking),
               supports_lora |-> JsonBoolean(model.supports_lora),
               description |-> OrNull(model.description)])

\* the loop of loraEntryToJson over compatible_model_ids
PushCompatibleIds(ids) ==
    IF ids = None THEN <<>>
    ELSE [i \in 1..Len(SelectSeq(ids[1], LAMBDA p : p # None)) |->
             JsonString(SelectSeq(ids[1], LAMBDA p : p # None)[i][1])]

LoraEntryToJson(entry) ==
    IF entry.null THEN DumpNull
    ELSE Dump([id |-> OrEmpty(entry.id),
               name |-> OrEmpty(entry.name),
               description |-> OrEmpty(entry.description),
               download_url |-> OrEmpty(entry.download_url),
               filename |-> OrEmpty(entry.filename),
               file_size |-> JsonNumber(entry.file_size),
               default_scale |-> JsonNumber(entry.default_scale),
               compatible_model_ids |->
                   JsonArray(PushCompatibleIds(entry.compatible_model_ids))])

ModelInfoToJsonCall(model) ==
    /\ jcall = NoJsonCall
    /\ jcall' = [fn |-> "modelInfoToJson", arg |-> model,
                 ret |-> ModelInfoToJson(model)]
    /\ UNCHANGED notJsonVars

LoraEntryToJsonCall(entry) ==
    /\ jcall = NoJsonCall
    /\ jcall' = [fn |-> "loraEntryToJson", arg |-> entry,
                 ret |-> LoraEntryToJson(entry)]
    /\ UNCHANGED notJsonVars

\* a builder keeps nothing between calls: each behaviour makes one call
JsonNext ==
    \/ \E parsed \in ToolCallResults : RacToolCallParse(parsed)
    \/ \E model \in ModelInfos \cup {NullRecord} : ModelInfoToJsonCall(model)
    \/ \E entry \in LoraJsonEntries \cup {NullRecord} : LoraEntryToJsonCall(entry)

JsonSpec == Init /\ [][JsonNext]_vars

\* the whitespace of JSON
JsonWhitespace == {" ", "\t", "\n", "\r"}

RECURSIVE StripLeadingWhitespace(_)
StripLeadingWhitespace(s) ==
    IF s = <<>> THEN s
    ELSE IF Head(s) \in JsonWhitespace THEN StripLeadingWhitespace(Tail(s))
    ELSE s

\* the parser's arguments_json is present and its first byte that is not
\* whitespace opens an object or an array
OpensObjectOrArray(arguments_json) ==
    /\ arguments_json # None
    /\ StripLeadingWhitespace(arguments_json[1]) # <<>>
    /\ Head(StripLeadingWhitespace(arguments_json[1])) \in {"{", "["}

\* the position of a literal in a built text (0 when it is not there)
PositionOf(text, token) ==
    IF \E i \in 1..Len(text) : text[i] = token
    THEN CHOOSE i \in 1..Len(text) : text[i] = token /\ \A j \in 1..(i - 1) : text[j] # token
    ELSE 0

\* the text between "argumentsJson": and ,"callId":
ArgumentsJsonOf(text) ==
    SubSeq(text, PositionOf(text, "\",\"argumentsJson\":") + 1,
                 PositionOf(text, ",\"callId\":") - 1)

\* C29: for an output the parser reports a tool call for, the text returned
\* has argumentsJson equal to the parser's arguments_json, byte for byte,
\* when its first byte that is not whitespace is { or [, and equal to {}
\* otherwise (null, empty, whitespace only, any other first byte); the text
\* is returned with hasToolCall true and the call id in both cases.
C29_ArgumentsJsonValidated ==
    (jcall.fn = "racToolCallParse" /\ jcall.arg.rc = RAC_SUCCESS
        /\ jcall.arg.has_tool_call) =>
        /\ ~jcall.ret.crashed
        /\ jcall.ret.text[3] = "true"
        /\ PositionOf(jcall.ret.text, "\",\"argumentsJson\":") > 0
        /\ PositionOf(jcall.ret.text, ",\"callId\":") > 0
        /\ jcall.ret.text[PositionOf(jcall.ret.text, ",\"callId\":") + 1]
              = ToString(jcall.arg.call_id)
        /\ ArgumentsJsonOf(jcall.ret.text) =
              IF OpensObjectOrArray(jcall.arg.arguments_json)
              THEN jcall.arg.arguments_json[1]
              ELSE <<"{", "}">>

\* arguments_json " x{" came back as {} with the call still reported
C29_Witness ==
    /\ jcall.fn = "racToolCallParse" /\ jcall.arg.rc = RAC_SUCCESS
    /\ jcall.arg.has_tool_call
    /\ jcall.arg.arguments_json = Some(<<" ", "x", "{">>)
    /\ ArgumentsJsonOf(jcall.ret.text) = <<"{", "}">>
    /\ jcall.arg.tool_name = Some(<<"f">>)

\* the nullable string fields of each record and the keys they are written to
StringFields(fn) ==
    IF fn = "modelInfoToJson"
    THEN {<<"id", "model_id">>, <<"name", "name">>,
          <<"download_url", "download_url">>, <<"local_path", "local_path">>,
          <<"description", "description">>}
    ELSE {<<"id", "id">>, <<"name", "name">>, <<"description", "description">>,
          <<"download_url", "download_url">>, <<"filename", "filename">>}

\* C30: in the JSON of a model entry or a LoRA entry a string field that is
\* null in the native record is written as null, and a field that is
\* present, the empty string included, is written as a JSON string.
C30_AbsentStringIsJsonNull ==
    (jcall.fn \in {"modelInfoToJson", "loraEntryToJson"} /\ ~jcall.arg.null) =>
        \A f \in StringFields(jcall.fn) :
            IF jcall.arg[f[1]] = None
            THEN jcall.ret.members[f[2]] = <<"null">>
            ELSE jcall.ret.members[f[2]]
                    = <<"\"">> \o jcall.arg[f[1]][1] \o <<"\"">>

(***************************************************************************)
(* Null elements of compatible_model_ids.                                  *)
(***************************************************************************)
\* a record's list of compatible model ids holds no null element
NoNullModelId(v) ==
    \A i \in DOMAIN v.compatible_model_ids : v.compatible_model_ids[i] # None

\* C31: after any sequence of register and remove calls no entry stored in
\* the registry has a null element in its compatible_model_ids list, and no
\* record just returned by get has one.
C31_NoNullModelIdStored ==
    /\ \A k \in DOMAIN entries : NoNullModelId(StoredValue(k))
    /\ (call.op = "get" /\ call.rc = RAC_SUCCESS) =>
          NoNullModelId(EntryValue(heap, out.entry))

(***************************************************************************)
(* The result of an LLM streaming call that ends through the complete      *)
(* callback.                                                               *)
(***************************************************************************)
\* an LLM streaming entry point has returned a JSON result
LlmReturnedJson == kind \in LlmKinds /\ pc = "returned" /\ result.kind = "json"

\* C32: when an LLM streaming call ends through the complete callback the
\* text of the result is the concatenation, in the order of emission, of the
\* non-null tokens the engine passed to the token callback, delivered to the
\* sink or not, and the context's token count is the number of those tokens.
C32_TextIsAllTokens ==
    LlmReturnedJson =>
        /\ eng.terminal = "complete"
        /\ result.text = eng.emitted
        /\ ctx.token_count = Len(eng.emitted)

\* two tokens and a null token were passed, the sink saw one token only, and
\* the result holds both
C32_Witness ==
    /\ LlmReturnedJson /\ kind = "llmcb"
    /\ Len(eng.emitted) = 2 /\ Len(sinkLog) = 1
    /\ hist.nulls
    /\ result.text = eng.emitted

\* C37: when an LLM streaming call completes through the complete callback,
\* tokens_generated of the result is the engine's completion_tokens when that
\* is greater than 0, and the number of tokens the bridge counted when the
\* engine passed no result record or a completion_tokens of 0 or less.
C37_TokensGenerated ==
    LlmReturnedJson =>
        /\ hist.completion # None
        /\ result.tokens_generated =
              IF hist.completion[1] > 0 THEN hist.completion[1]
              ELSE Len(eng.emitted)

\* the engine reported completion_tokens 1 after it had passed two tokens
C37_Witness ==
    /\ LlmReturnedJson
    /\ Len(eng.emitted) = 2
    /\ hist.completion = Some(1)
    /\ result.tokens_generated = 1

(***************************************************************************)
(* The heap after a call that ran out of memory.                           *)
(***************************************************************************)
\* C33: a registry call that fails with out-of-memory leaks nothing: after a
\* failed register, get, get_all or get_for_model the blocks allocated are
\* the blocks that were allocated before the call, whichever allocation of
\* the call was the one that failed.
C33_OutOfMemoryLeaksNothing ==
    (call.op \in RegistryOps /\ call.rc = RAC_ERROR_OUT_OF_MEMORY) =>
        Addr \ FreeAddrs(heap) = call.used

\* get_all failed with two entries stored, after the result array and the
\* copy of the first entry had been allocated
C33_Witness ==
    /\ call.op = "get_all" /\ call.rc = RAC_ERROR_OUT_OF_MEMORY
    /\ call.size = 2
    /\ call.fail > 1 + CopyAllocs(heap, entries["l1"])
    /\ Addr \ FreeAddrs(heap) = call.used

\* C38: when get_all or get_for_model returns a code other than success
\* after its argument check, the array pointer it leaves in *out_entries is
\* null and the count it leaves in *out_count is 0.
C38_FailedReadZeroesOutputs ==
    (call.op \in {"get_all", "get_for_model"} /\ ValidCall
        /\ call.rc # RAC_SUCCESS) =>
        out.entries = NULL /\ out.count = 0

(***************************************************************************)
(* Ownership of the entries of a registry used by two threads.             *)
(***************************************************************************)
\* the blocks the callers own: their records and the results handed to them
ThreadCallerBlocks ==
    UNION {EntryBlocks(heap, inputs[i]) : i \in {j \in 1..NumInputs : inputs[j] # NULL}}
    \cup UNION {OutBlocks(heap, thr[t].out) : t \in Threads}

\* C34: over register, remove and destroy calls, also from two threads, an
\* entry of the registry is freed once, when it is replaced, removed or the
\* registry destroyed: a register or remove at work under the mutex never
\* finds in the map an entry that has been freed, and after destroy no block
\* of the registry is left allocated.
C34_EntriesFreedExactlyOnce ==
    /\ \A t \in Threads :
          (thr[t].pc = "in" /\ thr[t].op \in {"register", "remove"}) =>
              \A k \in DOMAIN entries : heap[entries[k]].kind = "entry"
    /\ reg = "destroyed" => (Addr \ FreeAddrs(heap)) \subseteq ThreadCallerBlocks

(***************************************************************************)
(* The global reference of the token sink.                                 *)
(***************************************************************************)
\* C35: when racLlmComponentGenerateStreamWithCallback or
\* racVlmComponentProcessStream has returned, by whichever path, the global
\* reference it made for the sink has been deleted once and is not held; on
\* the paths that return before the sink is promoted none was made.
C35_SinkReferenceReleasedOnce ==
    (kind \in SinkKinds /\ pc = "returned") =>
        /\ hist.made <= 1
        /\ hist.freed = hist.made
        /\ gref # "held"
        /\ eng.state = "off" => (hist.made = 0 /\ gref = "none")
        /\ eng.state # "off" => hist.made = 1

\* the component rejected the call of the LLM entry point with a sink
C35_Witness ==
    /\ kind = "llmcb" /\ pc = "returned"
    /\ eng.state = "rejected"
    /\ hist.made = 1 /\ hist.freed = 1
    /\ gref = "released"

\* C36: a bridge callback that has returned leaves the native thread's
\* attachment to the managed runtime as it found it: the native thread, which
\* is detached before its first callback, is detached whenever none of its
\* callbacks is running.
C36_AttachmentRestored ==
    cbk.pc = "idle" => ~cbk.attached

\* C39: an analytics event is never routed to a telemetry manager that the
\* bridge has destroyed: once the route was given a live manager, it names no
\* manager or a live one, and no event has gone to a destroyed manager.
C39_RouteNamesLiveManager ==
    /\ ~route.stale
    /\ (route.valid /\ g_analytics_telemetry_manager # 0) =>
            managers[g_analytics_telemetry_manager].live

\* C40: after a call of racModelAssignmentSetCallbacks has returned, whatever
\* its outcome, callbacks_registered is true exactly when a callback object
\* is installed.
C40_RegisteredIffInstalled ==
    (inst.what = "assignment" /\ inst.pc = "idle") =>
        (g_model_assignment_state.callbacks_registered
            <=> g_model_assignment_state.callback_obj # 0)

====
